---- MODULE Spec2Model ----
(***************************************************************************)
(* A model of the pull-request code reviewer: the ReviewManager pipeline   *)
(* (download, filter, the three reviewers, summary, report rendering), the *)
(* security pattern scanner and the quality reviewer's structural checks.  *)
(*                                                                         *)
(* Python dictionaries are functions from key names to values, so that     *)
(* "key in dict" is membership in DOMAIN.  Text is a sequence of one-      *)
(* character strings where the code looks inside it (file names, glob      *)
(* patterns) and a sequence of lexical tokens where regular expressions    *)
(* are applied to it (source lines).                                       *)
(***************************************************************************)
EXTENDS Integers, Sequences, FiniteSets, TLC

VARIABLES
    pc,                \* position of the modelled call
    pr_files,          \* the files of the pull request, as GitHub lists them
    downloaded_files,  \* what download_files returned
    filtered_files,    \* what _filter_files_for_review passed to the reviewers
    style_results,     \* 'issues' of StyleReviewer.review (its 'count' is Len)
    security_results,  \* 'issues' of SecurityReviewer.review
    quality_results,   \* 'issues' of QualityReviewer.review
    summary,           \* value of _generate_summary, None before it ran
    formatted_results, \* value of _format_results, None before it ran
    exception,         \* exception that left the modelled call, or None
    retained,          \* per reviewer, the issues its object still holds of
                       \* its previous review call
    remembered,        \* history: one file of an earlier review and the
                       \* issues that review reported for it (at most one)
    returned,          \* value review_pull_request returned, None before
    line_num,          \* _find_functions: number of lines scanned so far
    functions,         \* _find_functions: the spans closed so far
    current_function,  \* _find_functions: the open span (at most one)
    brace_count,       \* _find_functions: the brace depth
    complexity,        \* _check_functions: the complexity estimated for
                       \* each span, in the order of the spans
    base_config,       \* _merge_configs: the dictionary merged into
    override_config,   \* _merge_configs: the dictionary merged from
    duplication,       \* QualityReviewer: what its configuration holds under
                       \* 'duplication', <<>> when the key is not configured
    open_prs,          \* review_all_pull_requests: the open pull requests
    all_results,       \* review_all_pull_requests: the list it returned
    default_config,    \* ConfigLoader: its default_config attribute
    temp_dir,          \* review_pull_request: the directory mkdtemp made
                       \* for the call, 0 when none
    temp_dirs,         \* the temporary directories there are on the disk
    output_mode,       \* review_pull_request: its output_mode argument
    posted             \* the comments the call posted on the pull request

vars == <<pc, pr_files, downloaded_files, filtered_files, style_results,
          security_results, quality_results, summary, formatted_results,
          exception, retained, remembered, returned, line_num, functions,
          current_function, brace_count, complexity, base_config, override_config,
          duplication,
          open_prs, all_results, default_config, temp_dir, temp_dirs,
          output_mode, posted>>

\* The variables of one operation, for the operations that leave them alone.
finderVars == <<line_num, functions, current_function, brace_count, complexity>>
configVars == <<base_config, override_config, duplication, default_config>>
callVars == <<temp_dir, temp_dirs, output_mode, posted>>
allVars == <<open_prs, all_results, callVars>>

None == "None"

\* _find_functions, _merge_configs and review_all_pull_requests not called.
FinderIdle ==
    /\ line_num = 0
    /\ functions = <<>>
    /\ current_function = <<>>
    /\ brace_count = 0
    /\ complexity = <<>>

ConfigIdle ==
    /\ base_config = None
    /\ override_config = None
    /\ duplication = <<>>
    /\ default_config = None

\* review_pull_request not called with a directory of its own.
CallIdle ==
    /\ temp_dir = 0
    /\ temp_dirs = {}
    /\ output_mode = "both"
    /\ posted = <<>>

AllIdle == open_prs = <<>> /\ all_results = None /\ CallIdle

---------------------------------------------------------------------------
(* Issues and severities                                                   *)

Severities == {"critical", "high", "medium", "low", "info"}

Categories == {"style", "security", "quality"}

\* dict.get(key, default)
Get(d, key, default) == IF key \in DOMAIN d THEN d[key] ELSE default

RECURSIVE SumSeq(_)
SumSeq(s) == IF s = <<>> THEN 0 ELSE Head(s) + SumSeq(Tail(s))

Max(a, b) == IF a >= b THEN a ELSE b
Min(a, b) == IF a <= b THEN a ELSE b

---------------------------------------------------------------------------
(* ReviewManager._get_verdict                                              *)

GetVerdictStrict(score) ==
    IF score > 90 THEN "Excellent code quality. Approved!"
    ELSE IF score > 80 THEN "Good code quality with minor issues."
    ELSE IF score > 70 THEN "Acceptable code quality but needs improvement."
    ELSE IF score > 50 THEN "Poor code quality. Significant improvements needed."
    ELSE "Critical issues found. Must be fixed before merging."

GetVerdict(score) ==
    IF score >= 90 THEN "Excellent code quality. Approved!"
    ELSE IF score >= 80 THEN "Good code quality with minor issues."
    ELSE IF score >= 70 THEN "Acceptable code quality but needs improvement."
    ELSE IF score >= 50 THEN "Poor code quality. Significant improvements needed."
    ELSE "Critical issues found. Must be fixed before merging."

---------------------------------------------------------------------------
(* ReviewManager._generate_summary                                         *)

\* A counting bug: issues of severity info are passed over.
RECURSIVE CountIssuesAboveInfo(_, _)
CountIssuesAboveInfo(acc, list) ==
    IF list = <<>> THEN acc
    ELSE LET severity == Get(Head(list), "severity", "info")
         IN  IF severity = "info" THEN CountIssuesAboveInfo(acc, Tail(list))
             ELSE CountIssuesAboveInfo([acc EXCEPT !.issues[severity] = @ + 1],
                                       Tail(list))

\* The counting loops: issues[severity] += 1 for each issue of the list, in
\* list order.  An issue whose severity is not a key of the counter raises
\* KeyError, which ends the counting.
RECURSIVE CountIssues(_, _)
CountIssues(acc, list) ==
    IF list = <<>> \/ acc.raised THEN acc
    ELSE LET severity == Get(Head(list), "severity", "info")
         IN  IF severity \notin DOMAIN acc.issues
             THEN [acc EXCEPT !.raised = TRUE]
             ELSE CountIssues([acc EXCEPT !.issues[severity] = @ + 1], Tail(list))

ZeroCounts == [s \in Severities |-> 0]

\* The deduction of lines 215-223.
ScoreNoClamp(issues, total_issues) ==
    IF total_issues > 0
    THEN 100 - issues["critical"] * 10 - issues["high"] * 5
             - issues["medium"] * 2 - issues["low"] * 1
    ELSE 100

ScoreLowAdds(issues, total_issues) ==
    IF total_issues > 0
    THEN Max(0, Min(100, 100 - issues["critical"] * 10 - issues["high"] * 5
                             - issues["medium"] * 2 + issues["low"] * 1))
    ELSE 100

ScoreOf(issues, total_issues) ==
    IF total_issues > 0
    THEN Max(0, Min(100, 100 - issues["critical"] * 10 - issues["high"] * 5
                             - issues["medium"] * 2 - issues["low"] * 1))
    ELSE 100

GenerateSummary(style, security, quality) ==
    LET counted == CountIssues(CountIssues(CountIssues(
                       [issues |-> ZeroCounts, raised |-> FALSE], style),
                       security), quality)
        issues == counted.issues
    IN  IF counted.raised
        THEN [raised |-> "KeyError"]
        ELSE LET total_issues == SumSeq([i \in 1..5 |->
                     issues[<<"critical", "high", "medium", "low", "info">>[i]]])
                 score == ScoreOf(issues, total_issues)
             IN  [total_issues |-> total_issues,
                  issues_by_severity |-> issues,
                  score |-> score,
                  verdict |-> GetVerdict(score)]

---------------------------------------------------------------------------
(* Source lines                                                            *)
(*                                                                         *)
(* A line is the sequence of its lexical tokens: words, punctuation,       *)
(* quoted literals, and " " for the white space a line starts or ends      *)
(* with.  A line of no tokens is empty, a line of " " tokens is blank.  A  *)
(* pattern is modelled by the number of tokens a match starting at a       *)
(* given token consumes.                                                   *)

SecretWords == {"password", "secret", "key", "token", "credential"}
QuotedWords == {"'s3cret'"}
\* Quoted literals that hold a character \w does not match.
QuotedOthers == {"'p@ss!'"}
DebugWords == {"console.log", "print", "debug", "todo", "fixme"}

\* Positions of the line after position i that hold token t.
After(line, i, t) == {j \in (i + 1)..Len(line) : line[j] = t}

SetMax(S) == CHOOSE x \in S : \A y \in S : y <= x
SetMin(S) == CHOOSE x \in S : \A y \in S : x <= y

\* \( .* \+ \s* .* \) with its "(" at token i: a "+" after it and a ")" after
\* the "+"; .* is greedy, so the match runs to the last ")" of the line.  The
\* value is the position of that ")", 0 when there is no match.
ConcatCallEnd(line, i) ==
    IF i > Len(line) \/ line[i] # "(" THEN 0
    ELSE LET plus == After(line, i, "+")
             close == IF plus = {} THEN {} ELSE After(line, SetMin(plus), ")")
         IN  IF close = {} THEN 0 ELSE SetMax(close)

\* .* \.raw \( .* \+ \s* .* \) tried at i: the leading .* reaches any later
\* ".raw" call.  The value is the position the match ends at, 0 for none.
LaterRawCallEnd(line, i) ==
    LET at == {j \in i..Len(line) :
                  line[j] = ".raw" /\ ConcatCallEnd(line, j + 1) > 0}
    IN  IF at = {} THEN 0 ELSE SetMax({ConcatCallEnd(line, j + 1) : j \in at})

\* SecurityReviewer.security_patterns[check_name]['pattern'], tried at token i
\* of the line: the number of tokens the match consumes, 0 when there is none.
MatchLenAt(check_name, line, i) ==
    CASE check_name = "hardcoded_secrets" ->
           IF /\ i + 2 <= Len(line)
              /\ line[i] \in SecretWords
              /\ line[i + 1] \in {"=", ":"}
              /\ line[i + 2] \in QuotedWords
           THEN 3 ELSE 0
      [] check_name = "sql_injection" ->
           IF line[i] = "execute" /\ ConcatCallEnd(line, i + 1) > 0
           THEN ConcatCallEnd(line, i + 1) - i + 1
           ELSE IF LaterRawCallEnd(line, i) > 0
           THEN LaterRawCallEnd(line, i) - i + 1
           ELSE 0
      [] check_name = "command_injection" ->
           IF /\ line[i] \in {"os.system", "subprocess.call", "exec", "eval"}
              /\ ConcatCallEnd(line, i + 1) > 0
           THEN ConcatCallEnd(line, i + 1) - i + 1 ELSE 0
      [] check_name = "xss" ->
           IF line[i] = "innerHTML" THEN 1
           ELSE IF line[i] = "document.write" /\ ConcatCallEnd(line, i + 1) > 0
           THEN ConcatCallEnd(line, i + 1) - i + 1
           ELSE 0
      [] check_name = "insecure_random" ->
           IF /\ i + 2 <= Len(line)
              /\ line[i] \in {"Math.random", "random.random"}
              /\ line[i + 1] = "(" /\ line[i + 2] = ")"
           THEN 3 ELSE 0
      [] check_name = "debug_code" ->
           IF line[i] \in DebugWords THEN 1 ELSE 0

\* re.findall(pattern, line): the non-overlapping matches, found left to
\* right, each search resuming where the previous match ended.
RECURSIVE FindAllFrom(_, _, _)
FindAllFrom(check_name, line, i) ==
    IF i > Len(line) THEN <<>>
    ELSE LET n == MatchLenAt(check_name, line, i)
         IN  IF n > 0
             THEN <<i>> \o FindAllFrom(check_name, line, i + n)
             ELSE FindAllFrom(check_name, line, i + 1)

FindAll(check_name, line) == FindAllFrom(check_name, line, 1)

---------------------------------------------------------------------------
(* SecurityReviewer: the pattern table and the pattern scanner             *)

\* self.security_patterns, in insertion order (the order .items() iterates).
CheckNames ==
    <<"hardcoded_secrets", "sql_injection", "command_injection", "xss",
      "insecure_random", "debug_code">>

SecurityPatterns ==
    [hardcoded_secrets |->
        [message |-> "Potential hardcoded secret or credential",
         severity |-> "critical"],
     sql_injection |->
        [message |-> "Potential SQL injection vulnerability",
         severity |-> "critical"],
     command_injection |->
        [message |-> "Potential command injection vulnerability",
         severity |-> "critical"],
     xss |->
        [message |-> "Potential XSS vulnerability", severity |-> "high"],
     insecure_random |->
        [message |-> "Use of insecure random number generator",
         severity |-> "medium"],
     debug_code |->
        [message |-> "Debug code or comment found", severity |-> "low"]]

Suggestions ==
    [hardcoded_secrets |->
        "Store secrets in environment variables or a secure vault",
     sql_injection |->
        "Use parameterized queries or an ORM instead of string concatenation",
     command_injection |->
        "Use safe APIs or validate and sanitize user input before using it in commands",
     xss |-> "Use safe APIs or sanitize user input before inserting it into HTML",
     insecure_random |-> "Use a cryptographically secure random number generator",
     debug_code |-> "Remove debug code before production deployment"]

\* _get_suggestion: suggestions.get(check_name, default)
GetSuggestion(check_name) ==
    Get(Suggestions, check_name, "Review and fix the security issue")

SecurityIssue(repo_path, line_no, check_name) ==
    [file |-> repo_path,
     line |-> line_no,
     message |-> SecurityPatterns[check_name].message,
     severity |-> SecurityPatterns[check_name].severity,
     type |-> "security",
     code |-> check_name,
     suggestion |-> GetSuggestion(check_name)]

\* A bug the scanner could have: one issue for each match of the line.
LineIssuesPerMatch(repo_path, lines, check_name, i) ==
    [m \in 1..Len(FindAll(check_name, lines[i])) |->
        SecurityIssue(repo_path, i, check_name)]

\* Lines 120-130: matches = re.findall(pattern, line); if matches: one issue.
LineIssues(repo_path, lines, check_name, i) ==
    IF FindAll(check_name, lines[i]) # <<>>
    THEN <<SecurityIssue(repo_path, i, check_name)>>
    ELSE <<>>

\* The inner loop (line 119): the lines from i on, in file order.
RECURSIVE ScanLines(_, _, _, _)
ScanLines(repo_path, lines, check_name, i) ==
    IF i > Len(lines) THEN <<>>
    ELSE LineIssues(repo_path, lines, check_name, i)
             \o ScanLines(repo_path, lines, check_name, i + 1)

\* The outer loop (line 113): the checks from c on, in table order.
RECURSIVE ScanChecks(_, _, _)
ScanChecks(repo_path, lines, c) ==
    IF c > Len(CheckNames) THEN <<>>
    ELSE ScanLines(repo_path, lines, CheckNames[c], 1)
             \o ScanChecks(repo_path, lines, c + 1)

\* _check_security_patterns(local_path, repo_path), lines being
\* content.splitlines() of the local file.
CheckSecurityPatterns(repo_path, lines) == ScanChecks(repo_path, lines, 1)

---------------------------------------------------------------------------
(* File names, and ReviewManager._filter_files_for_review                  *)
(*                                                                         *)
(* A file name, an extension and an exclusion pattern are sequences of     *)
(* one-character strings.                                                  *)

\* The positions of character c in text s.
IndicesOf(s, c) == {i \in 1..Len(s) : s[i] = c}

\* s.rfind(c) + 1: the last position of c in s, 0 when c is not in s.
RFind(s, c) == IF IndicesOf(s, c) = {} THEN 0 ELSE SetMax(IndicesOf(s, c))

\* get_file_extension: os.path.splitext(filename)[1].  The extension starts
\* at the last dot after the last "/", unless only dots precede that dot in
\* the base name.
GetFileExtension(filename) ==
    LET sepIndex == RFind(filename, "/")
        dotIndex == RFind(filename, ".")
    IN  IF /\ dotIndex > sepIndex
           /\ \E k \in (sepIndex + 1)..(dotIndex - 1) : filename[k] # "."
        THEN SubSeq(filename, dotIndex, Len(filename))
        ELSE <<>>

\* str.lower(), on the upper-case letters the file names of the model use.
LowerOf == [G |-> "g", N |-> "n", P |-> "p"]

Lower(s) == [i \in 1..Len(s) |-> IF s[i] \in DOMAIN LowerOf THEN LowerOf[s[i]] ELSE s[i]]

\* pattern in filename: the pattern occurs in the name as a substring.
Contains(filename, pattern) ==
    \E i \in 0..(Len(filename) - Len(pattern)) :
        SubSeq(filename, i + 1, i + Len(pattern)) = pattern

\* The extensions of line 166.
NonCodeExtensions ==
    {<<".", "p", "n", "g">>,
     <<".", "j", "p", "g">>,
     <<".", "j", "p", "e", "g">>,
     <<".", "g", "i", "f">>,
     <<".", "s", "v", "g">>,
     <<".", "p", "d", "f">>}

\* ConfigLoader.default_config['exclude_patterns']
DefaultExcludePatterns ==
    <<<<"n", "o", "d", "e", "_", "m", "o", "d", "u", "l", "e", "s", "/">>,
      <<"v", "e", "n", "v", "/">>,
      <<".", "g", "i", "t", "/">>,
      <<"_", "_", "p", "y", "c", "a", "c", "h", "e", "_", "_", "/">>,
      <<"*", ".", "m", "i", "n", ".", "j", "s">>,
      <<"*", ".", "m", "i", "n", ".", "c", "s", "s">>,
      <<"*", ".", "s", "v", "g">>,
      <<"*", ".", "p", "n", "g">>,
      <<"*", ".", "j", "p", "g">>,
      <<"*", ".", "j", "p", "e", "g">>,
      <<"*", ".", "g", "i", "f">>,
      <<"*", ".", "p", "d", "f">>,
      <<"*", ".", "l", "o", "c", "k">>,
      <<"p", "a", "c", "k", "a", "g", "e", "-", "l", "o", "c", "k", ".", "j", "s", "o", "n">>>>

\* The resolved configuration the ReviewManager is built with: the default
\* exclusion list, and quality thresholds configured low enough for the
\* files of the model to exceed them.
Config ==
    [exclude_patterns |-> DefaultExcludePatterns,
     quality |-> [function_length |-> 2, file_length |-> 2, complexity |-> 2]]

\* The body of the loop of _filter_files_for_review: lines 155-168 decide
\* whether the file is skipped.
Skipped(file, excluded_patterns) ==
    \/ file.status = "removed"
    \/ \E p \in 1..Len(excluded_patterns) :
           Contains(file.filename, excluded_patterns[p])
    \/ LET ext == GetFileExtension(file.filename)
       IN  ext = <<>> \/ Lower(ext) \in NonCodeExtensions

RECURSIVE KeepUnskipped(_, _)
KeepUnskipped(files, excluded_patterns) ==
    IF files = <<>> THEN <<>>
    ELSE (IF Skipped(Head(files), excluded_patterns) THEN <<>>
          ELSE <<Head(files)>>)
         \o KeepUnskipped(Tail(files), excluded_patterns)

FilterFilesForReview(files) ==
    KeepUnskipped(files, Get(Config, "exclude_patterns", <<>>))

---------------------------------------------------------------------------
(* QualityReviewer                                                         *)

Punctuation ==
    {" ", "(", ")", "{", "}", "=", ":", "+", "=>", "#", "//", "/*", "*/",
     "\"\"\"", "*", "&&", "||", "?", ";", ","}

\* A token [\w_]+ matches.
IsWord(t) == t \notin Punctuation /\ t \notin QuotedWords \cup QuotedOthers

RECURSIVE LStrip(_)
LStrip(line) ==
    IF line # <<>> /\ Head(line) = " " THEN LStrip(Tail(line)) ELSE line

RECURSIVE RStrip(_)
RStrip(line) ==
    IF line # <<>> /\ line[Len(line)] = " "
    THEN RStrip(SubSeq(line, 1, Len(line) - 1)) ELSE line

\* str.strip()
Strip(line) == RStrip(LStrip(line))

\* str.count(t) / t in line, for a one-token text t.
Count(line, t) == Cardinality(IndicesOf(line, t))

\* self.thresholds (lines 23-28): config.get(name, default).
Thresholds ==
    [function_length |-> Get(Config.quality, "function_length", 50),
     file_length |-> Get(Config.quality, "file_length", 500),
     complexity |-> Get(Config.quality, "complexity", 10)]

\* A check that also reports a file of exactly the threshold's length.
CheckFileLengthInclusive(repo_path, lines) ==
    LET line_count == Len(lines)
        threshold == Thresholds.file_length
    IN  IF line_count >= threshold
        THEN <<[file |-> repo_path,
                message |-> "File is too long (" \o ToString(line_count)
                    \o " lines, threshold: " \o ToString(threshold) \o ")",
                severity |-> "medium",
                type |-> "quality",
                suggestion |->
                  "Consider breaking the file into smaller, more focused modules"]>>
        ELSE <<>>

\* _check_file_length, count_lines giving the number of lines of the file.
CheckFileLength(repo_path, lines) ==
    LET line_count == Len(lines)
        threshold == Thresholds.file_length
    IN  IF line_count > threshold
        THEN <<[file |-> repo_path,
                message |-> "File is too long (" \o ToString(line_count)
                    \o " lines, threshold: " \o ToString(threshold) \o ")",
                severity |-> "medium",
                type |-> "quality",
                suggestion |->
                  "Consider breaking the file into smaller, more focused modules"]>>
        ELSE <<>>

\* _get_function_patterns: the start patterns of the file type in dictionary
\* order ('end' is handled by EndMatch); other types get the '.js' patterns.
PatternTypes(file_ext) ==
    CASE file_ext = <<".", "p", "y">> -> <<"py_function", "py_class", "py_method">>
      [] file_ext = <<".", "j", "a", "v", "a">> -> <<"java_method">>
      [] file_ext = <<".", "g", "o">> -> <<"go_function", "go_method">>
      [] OTHER -> <<"js_function", "js_method", "js_arrow">>

Modifiers == {"public", "private", "protected", "static"}

RECURSIVE LeadingIn(_, _)
LeadingIn(line, S) ==
    IF line # <<>> /\ Head(line) \in S THEN 1 + LeadingIn(Tail(line), S) ELSE 0

\* A ")" after position i that token t follows directly.
ClosedThen(l, i, t) ==
    \E j \in (i + 1)..(Len(l) - 1) : l[j] = ")" /\ l[j + 1] = t

\* re.match(pattern, line) for a start pattern: the captured name, or None.
StartMatch(pattern_type, line) ==
    LET l == LStrip(line)
        At(i) == IF i <= Len(l) THEN l[i] ELSE " "
    IN  CASE pattern_type \in {"py_function", "py_method"} ->
               IF At(1) = "def" /\ IsWord(At(2)) /\ At(3) = "(" THEN At(2) ELSE None
          [] pattern_type = "py_class" ->
               IF At(1) = "class" /\ IsWord(At(2)) THEN At(2) ELSE None
          [] pattern_type = "js_function" ->
               IF At(1) = "function" /\ IsWord(At(2)) /\ At(3) = "("
               THEN At(2) ELSE None
          [] pattern_type = "js_method" ->
               IF IsWord(At(1)) /\ At(2) = "(" /\ ClosedThen(l, 2, "{")
               THEN At(1) ELSE None
          [] pattern_type = "js_arrow" ->
               IF /\ At(1) \in {"const", "let", "var"} /\ IsWord(At(2))
                  /\ At(3) = "=" /\ At(4) = "(" /\ ClosedThen(l, 4, "=>")
               THEN At(2) ELSE None
          [] pattern_type = "java_method" ->
               LET mods == LeadingIn(l, Modifiers)
                   ok == {m \in 0..mods :
                             /\ m > 0 \/ Len(l) < Len(line)
                             /\ IsWord(At(m + 1)) /\ IsWord(At(m + 2))
                             /\ At(m + 3) = "("}
               IN  IF ok = {} THEN None ELSE At(SetMax(ok) + 2)
          [] pattern_type = "go_function" ->
               IF At(1) = "func" /\ IsWord(At(2)) /\ At(3) = "(" THEN At(2) ELSE None
          [] pattern_type = "go_method" ->
               IF /\ At(1) = "func" /\ At(2) = "("
                  /\ \E j \in 3..(Len(l) - 2) :
                        l[j] = ")" /\ IsWord(l[j + 1]) /\ l[j + 2] = "("
               THEN l[SetMax({j \in 3..(Len(l) - 2) :
                        l[j] = ")" /\ IsWord(l[j + 1]) /\ l[j + 2] = "("}) + 1]
               ELSE None

\* re.match(patterns['end'], line): a blank line for '.py', a line whose
\* first token after white space is "}" for the other file types.
EndMatch(file_ext, line) ==
    IF file_ext = <<".", "p", "y">>
    THEN LStrip(line) = <<>>
    ELSE LStrip(line) # <<>> /\ Head(LStrip(line)) = "}"

\* Lines 228-243: the first start pattern, in dictionary order from t on,
\* that matches the line opens a span.
RECURSIVE FirstStart(_, _, _)
FirstStart(types, t, line) ==
    IF t > Len(types) THEN [type |-> None, name |-> None]
    ELSE IF StartMatch(types[t], line) # None
         THEN [type |-> types[t], name |-> StartMatch(types[t], line)]
         ELSE FirstStart(types, t + 1, line)

\* The state of _find_functions before its loop (lines 202-204): st holds
\* functions, current (current_function, a sequence of at most one span)
\* and brace_count.
FinderStart == [functions |-> <<>>, current |-> <<>>, brace_count |-> 0]

\* current_function with its end_line and length set (lines 220-221, 247-248).
ClosedAt(span, end_line) ==
    [span EXCEPT !.end_line = end_line,
                 !.length = end_line - span.start_line + 1]

\* A finder that tests the start patterns on every line and, when one
\* matches inside a span, closes that span there and opens the new one.
FindStepReopening(file_ext, line, i, st) ==
    LET m == FirstStart(PatternTypes(file_ext), 1, line)
        depth == st.brace_count + Count(line, "{") - Count(line, "}")
        opened == <<[name |-> m.name, type |-> m.type, start_line |-> i,
                     end_line |-> 0, length |-> 0]>>
    IN  IF m.type # None
        THEN [functions |-> IF st.current # <<>>
                            THEN Append(st.functions, ClosedAt(st.current[1], i))
                            ELSE st.functions,
              current |-> opened,
              brace_count |-> Count(line, "{")]
        ELSE IF st.current # <<>>
                /\ \/ EndMatch(file_ext, line) /\ depth <= 0
                   \/ depth <= 0 /\ Strip(line) = <<"}">>
        THEN [functions |-> Append(st.functions, ClosedAt(st.current[1], i)),
              current |-> <<>>, brace_count |-> 0]
        ELSE IF st.current # <<>> THEN [st EXCEPT !.brace_count = depth]
        ELSE st

\* The body of the loop of _find_functions for line number i (lines 206-243).
FindStep(file_ext, line, i, st) ==
    IF st.current # <<>>
    THEN LET depth == st.brace_count + Count(line, "{") - Count(line, "}")
         IN  IF \/ EndMatch(file_ext, line) /\ depth <= 0
                \/ depth <= 0 /\ Strip(line) = <<"}">>
             THEN [functions |-> Append(st.functions, ClosedAt(st.current[1], i)),
                   current |-> <<>>,
                   brace_count |-> 0]
             ELSE [st EXCEPT !.brace_count = depth]
    ELSE LET m == FirstStart(PatternTypes(file_ext), 1, line)
         IN  IF m.type # None
             THEN [functions |-> st.functions,
                   current |-> <<[name |-> m.name, type |-> m.type,
                                  start_line |-> i, end_line |-> 0,
                                  length |-> 0]>>,
                   brace_count |-> st.brace_count + Count(line, "{")]
             ELSE st

\* An end of the loop that forgets the span still open.
FindEndDropsOpen(lines, st) ==
    st.functions

\* Lines 245-251: a span still open after the last line ends there.
FindEnd(lines, st) ==
    IF st.current # <<>>
    THEN Append(st.functions, ClosedAt(st.current[1], Len(lines)))
    ELSE st.functions

\* The loop of _find_functions from line i on.
RECURSIVE FindFunctionsFrom(_, _, _, _)
FindFunctionsFrom(lines, file_ext, i, st) ==
    IF i > Len(lines) THEN FindEnd(lines, st)
    ELSE FindFunctionsFrom(lines, file_ext, i + 1,
                           FindStep(file_ext, lines[i], i, st))

FindFunctions(lines, file_ext) ==
    FindFunctionsFrom(lines, file_ext, 1, FinderStart)

\* control_flow_patterns (lines 268-281): the tokens each pattern finds.
ControlFlowPatterns ==
    <<{"if"}, {"else"}, {"for"}, {"while"}, {"switch"}, {"case"}, {"catch"},
      {"x?y"}, {"and"}, {"or"}, {"&&"}, {"||"}>>

\* _estimate_complexity: 1, plus 1 for each line and each pattern that
\* re.search finds in the line.
EstimateComplexity(lines) ==
    1 + Cardinality({<<i, q>> \in (1..Len(lines)) \X (1..Len(ControlFlowPatterns)) :
                        \E k \in 1..Len(lines[i]) :
                            lines[i][k] \in ControlFlowPatterns[q]})

\* The body of the loop of _check_functions for one function (lines 129-150).
FunctionIssues(repo_path, lines, func) ==
    LET estimate == EstimateComplexity(SubSeq(lines, func.start_line, func.end_line))
    IN  (IF func.length > Thresholds.function_length
         THEN <<[file |-> repo_path,
                 line |-> func.start_line,
                 message |-> "Function '" \o func.name \o "' is too long ("
                     \o ToString(func.length) \o " lines, threshold: "
                     \o ToString(Thresholds.function_length) \o ")",
                 severity |-> "medium",
                 type |-> "quality",
                 suggestion |->
                   "Break down the function into smaller, more focused functions"]>>
         ELSE <<>>)
        \o
        (IF estimate > Thresholds.complexity
         THEN <<[file |-> repo_path,
                 line |-> func.start_line,
                 message |-> "Function '" \o func.name
                     \o "' is too complex (estimated complexity: "
                     \o ToString(estimate) \o ", threshold: "
                     \o ToString(Thresholds.complexity) \o ")",
                 severity |-> "medium",
                 type |-> "quality",
                 suggestion |->
                   "Reduce complexity by extracting logic into helper functions"]>>
         ELSE <<>>)

RECURSIVE FunctionsIssues(_, _, _)
FunctionsIssues(repo_path, lines, found) ==
    IF found = <<>> THEN <<>>
    ELSE FunctionIssues(repo_path, lines, Head(found))
             \o FunctionsIssues(repo_path, lines, Tail(found))

\* _check_functions(local_path, repo_path, file_ext)
CheckFunctions(repo_path, lines, file_ext) ==
    FunctionsIssues(repo_path, lines, FindFunctions(lines, file_ext))

\* block_size, and the length under which a file is not checked (line 310).
BlockSize == 5
MinDuplicationLines == 10

\* lines[i:i+block_size], i being the 1-indexed first line of the block.
Block(lines, i) == SubSeq(lines, i, i + BlockSize - 1)

\* Line 320: block.strip() == '' or block.count('#') > block_size / 2.
BlockSkipped(block) ==
    \/ \A k \in 1..Len(block) : Strip(block[k]) = <<>>
    \/ 2 * SumSeq([k \in 1..Len(block) |-> Count(block[k], "#")]) > BlockSize

\* blocks[block]: the first lines of the blocks kept that equal the block at i.
Occurrences(lines, i) ==
    {j \in 1..(Len(lines) - BlockSize + 1) :
        ~BlockSkipped(Block(lines, j)) /\ Block(lines, j) = Block(lines, i)}

RECURSIVE SortedSeq(_)
SortedSeq(S) ==
    IF S = {} THEN <<>> ELSE <<SetMin(S)>> \o SortedSeq(S \ {SetMin(S)})

\* ', '.join(map(str, line_numbers))
RECURSIVE JoinNumbers(_)
JoinNumbers(line_numbers) ==
    IF line_numbers = <<>> THEN ""
    ELSE IF Len(line_numbers) = 1 THEN ToString(Head(line_numbers))
    ELSE ToString(Head(line_numbers)) \o ", " \o JoinNumbers(Tail(line_numbers))

\* Lines 329-338, the blocks dictionary being iterated in insertion order:
\* the order of the first occurrences.
RECURSIVE DuplicationFrom(_, _, _)
DuplicationFrom(repo_path, lines, i) ==
    IF i > Len(lines) - BlockSize + 1 THEN <<>>
    ELSE LET line_numbers == SortedSeq(Occurrences(lines, i))
         IN  (IF /\ ~BlockSkipped(Block(lines, i))
                 /\ line_numbers[1] = i
                 /\ Len(line_numbers) > 1
              THEN <<[file |-> repo_path,
                      line |-> line_numbers[1],
                      message |-> "Duplicated code block found at lines "
                                      \o JoinNumbers(line_numbers),
                      severity |-> "medium",
                      type |-> "quality",
                      suggestion |->
                        "Extract duplicated code into a reusable function"]>>
              ELSE <<>>)
             \o DuplicationFrom(repo_path, lines, i + 1)

\* A check that does not leave the short files out.
CheckDuplicationAnyLength(repo_path, lines) ==
    DuplicationFrom(repo_path, lines, 1)

\* _check_duplication(local_path, repo_path)
CheckDuplication(repo_path, lines) ==
    IF Len(lines) < MinDuplicationLines THEN <<>>
    ELSE DuplicationFrom(repo_path, lines, 1)

\* Lines 365-375: the comment delimiters of the file type; an empty record
\* for the unsupported types.
CommentDelimiters(ext) ==
    IF Lower(ext) = <<".", "p", "y">>
    THEN [single |-> "#", start |-> "\"\"\"", end |-> "\"\"\""]
    ELSE IF Lower(ext) \in {<<".", "j", "s">>, <<".", "j", "s", "x">>,
                            <<".", "t", "s">>, <<".", "t", "s", "x">>,
                            <<".", "j", "a", "v", "a">>, <<".", "c">>,
                            <<".", "c", "p", "p">>, <<".", "g", "o">>}
    THEN [single |-> "//", start |-> "/*", end |-> "*/"]
    ELSE [unsupported |-> TRUE]

\* str.strip('*')
RECURSIVE StripStars(_)
StripStars(text) ==
    IF text # <<>> /\ Head(text) = "*" THEN StripStars(Tail(text))
    ELSE IF text # <<>> /\ text[Len(text)] = "*"
    THEN StripStars(SubSeq(text, 1, Len(text) - 1))
    ELSE text

\* code_patterns (lines 401-414): some pattern is found in the comment text.
LooksLikeCode(text) ==
    \/ \E i \in 1..Len(text) :
           /\ text[i] \in {"if", "for", "while", "def", "class"}
           /\ After(text, i, ":") # {}
    \/ \E i \in 1..Len(text) :
           text[i] \in {"return", "function", "var", "let", "const"}
    \/ \E i \in 1..(Len(text) - 2) :
           text[i] = "=" /\ IsWord(text[i + 1]) /\ text[i + 2] = "("
    \/ \E i \in 1..(Len(text) - 1) :
           IsWord(text[i]) /\ text[i + 1] = "(" /\ After(text, i + 1, ")") # {}

\* The loop of _check_commented_code from line i on.
RECURSIVE CommentedCodeFrom(_, _, _, _, _)
CommentedCodeFrom(repo_path, lines, d, i, in_multi_line_comment) ==
    IF i > Len(lines) THEN <<>>
    ELSE LET line == lines[i]
             opened == in_multi_line_comment \/ Count(line, d.start) > 0
             closes == opened /\ Count(line, d.end) > 0
             comment_text == IF opened THEN StripStars(Strip(line))
                             ELSE Strip(Tail(Strip(line)))
         IN  IF closes
             THEN CommentedCodeFrom(repo_path, lines, d, i + 1, FALSE)
             ELSE IF ~opened /\ (Strip(line) = <<>> \/ Head(Strip(line)) # d.single)
             THEN CommentedCodeFrom(repo_path, lines, d, i + 1, opened)
             ELSE (IF LooksLikeCode(comment_text)
                   THEN <<[file |-> repo_path,
                           line |-> i,
                           message |-> "Commented-out code found",
                           severity |-> "low",
                           type |-> "quality",
                           suggestion |->
                             "Remove commented-out code or add a clear explanation for why it's kept"]>>
                   ELSE <<>>)
                  \o CommentedCodeFrom(repo_path, lines, d, i + 1, opened)

\* _check_commented_code(local_path, repo_path)
CheckCommentedCode(repo_path, lines, ext) ==
    IF "unsupported" \in DOMAIN CommentDelimiters(ext) THEN <<>>
    ELSE CommentedCodeFrom(repo_path, lines, CommentDelimiters(ext), 1, FALSE)

\* The extensions of line 57.
FunctionCheckExtensions ==
    {<<".", "p", "y">>, <<".", "j", "s">>, <<".", "j", "s", "x">>,
     <<".", "t", "s">>, <<".", "t", "s", "x">>, <<".", "j", "a", "v", "a">>,
     <<".", "c">>, <<".", "c", "p", "p">>, <<".", "g", "o">>, <<".", "r", "b">>,
     <<".", "p", "h", "p">>}

\* The body of the loop of QualityReviewer.review for one file (lines 49-68),
\* found being what _find_functions returned for the file.
QualityIssuesWith(file, found) ==
    LET ext == GetFileExtension(file.filename)
    IN  CheckFileLength(file.filename, file.content)
        \o (IF Lower(ext) \in FunctionCheckExtensions
            THEN FunctionsIssues(file.filename, file.content, found)
            ELSE <<>>)
        \o CheckDuplication(file.filename, file.content)
        \o CheckCommentedCode(file.filename, file.content, ext)

QualityFileIssues(file) ==
    QualityIssuesWith(file, FindFunctions(file.content,
                                          Lower(GetFileExtension(file.filename))))

---------------------------------------------------------------------------
(* The external tool adapters of StyleReviewer and SecurityReviewer        *)
(*                                                                         *)
(* What a tool does for a file is part of the file's record (file.tools):  *)
(* [ok |-> FALSE] when subprocess.run or the JSON parser raises, else      *)
(* [ok |-> TRUE, out |-> ...] with the output as the adapter splits it.    *)

\* A mapping bug: flake8's own classes are passed on as severities.
Flake8Class(first) ==
    IF first = "E" THEN "error" ELSE IF first = "F" THEN "fatal" ELSE "warning"

\* Lines 101-106: the severity of a flake8 code, first being its first
\* character.
Flake8Severity(first) ==
    IF first = "E" THEN "medium" ELSE IF first = "F" THEN "high" ELSE "low"

\* Lines 94-113: the loop over the output lines of flake8.  A line is
\* [nparts, row_ok, row, col_ok, col, first, code, text]: the number of
\* parts line.split(':', 4) gives, and whether int() takes the row and the
\* column.  int() raising ends the loop, the issues so far being kept.
RECURSIVE Flake8Lines(_, _)
Flake8Lines(repo_path, out) ==
    IF out = <<>> THEN <<>>
    ELSE LET l == Head(out)
         IN  IF l.nparts < 5 THEN Flake8Lines(repo_path, Tail(out))
             ELSE IF ~l.row_ok \/ ~l.col_ok THEN <<>>
             ELSE <<[file |-> repo_path,
                     line |-> l.row,
                     column |-> l.col,
                     code |-> l.code,
                     message |-> "Style issue: " \o l.text,
                     severity |-> Flake8Severity(l.first),
                     type |-> "style"]>>
                  \o Flake8Lines(repo_path, Tail(out))

\* Lines 124-161: the loop over the output lines of pylint.  A line is the
\* sequence of its ':'-separated fields.  file_line is the first of the
\* parts of line.split(':', 2), so file_line.split(':') has one element and
\* every line is skipped at line 141.
RECURSIVE PylintLines(_, _)
PylintLines(repo_path, out) ==
    IF out = <<>> THEN <<>>
    ELSE LET fields == Head(out)
             parts == IF Len(fields) <= 3 THEN fields
                      ELSE <<fields[1], fields[2]>> \o <<SubSeq(fields, 3, Len(fields))>>
             line_parts == <<parts[1]>>
         IN  IF Len(fields) < 2 \/ Len(parts) < 3 \/ Len(line_parts) < 2
             THEN PylintLines(repo_path, Tail(out))
             ELSE <<[file |-> repo_path, type |-> "lint"]>>
                  \o PylintLines(repo_path, Tail(out))

\* _review_python_file
ReviewPythonFile(repo_path, tools) ==
    (IF tools.flake8.ok THEN Flake8Lines(repo_path, tools.flake8.out) ELSE <<>>)
    \o (IF tools.pylint.ok THEN PylintLines(repo_path, tools.pylint.out) ELSE <<>>)

\* Lines 191-205: the messages of the ESLint results, each a dictionary.
RECURSIVE EslintMessages(_, _)
EslintMessages(repo_path, messages) ==
    IF messages = <<>> THEN <<>>
    ELSE LET message == Head(messages)
         IN  <<[file |-> repo_path,
                line |-> Get(message, "line", 0),
                column |-> Get(message, "column", 0),
                code |-> Get(message, "ruleId", "unknown"),
                message |-> "Style issue: " \o Get(message, "message", ""),
                severity |-> IF Get(message, "severity", 0) = 2 THEN "medium"
                             ELSE "low",
                type |-> "style"]>>
             \o EslintMessages(repo_path, Tail(messages))

RECURSIVE EslintResults(_, _)
EslintResults(repo_path, file_results) ==
    IF file_results = <<>> THEN <<>>
    ELSE EslintMessages(repo_path, Get(Head(file_results), "messages", <<>>))
             \o EslintResults(repo_path, Tail(file_results))

\* _review_javascript_file
ReviewJavascriptFile(repo_path, tools) ==
    IF tools.eslint.ok THEN EslintResults(repo_path, tools.eslint.out) ELSE <<>>

\* Lines 274-290: the loop over the output lines of golint, a line being
\* [nparts, row_ok, row, text] as for flake8.
RECURSIVE GolintLines(_, _)
GolintLines(repo_path, out) ==
    IF out = <<>> THEN <<>>
    ELSE LET l == Head(out)
         IN  IF l.nparts < 3 THEN GolintLines(repo_path, Tail(out))
             ELSE IF ~l.row_ok THEN <<>>
             ELSE <<[file |-> repo_path,
                     line |-> l.row,
                     message |-> "Lint issue: " \o l.text,
                     severity |-> "low",
                     type |-> "lint"]>>
                  \o GolintLines(repo_path, Tail(out))

\* _review_go_file; gofmt's out is whether its stripped output is non-empty.
ReviewGoFile(repo_path, tools) ==
    (IF tools.gofmt.ok /\ tools.gofmt.out
     THEN <<[file |-> repo_path,
             message |-> "Code is not properly formatted according to gofmt",
             severity |-> "low",
             type |-> "style",
             suggestion |-> "Run 'gofmt -w' to format the file"]>>
     ELSE <<>>)
    \o (IF tools.golint.ok THEN GolintLines(repo_path, tools.golint.out) ELSE <<>>)

JavascriptExtensions ==
    {<<".", "j", "s">>, <<".", "j", "s", "x">>, <<".", "t", "s">>,
     <<".", "t", "s", "x">>}

\* The body of the loop of StyleReviewer.review for one file (lines 47-64);
\* the adapters of the other file types return [].
StyleFileIssues(file) ==
    LET ext == Lower(GetFileExtension(file.filename))
    IN  IF ext = <<".", "p", "y">> THEN ReviewPythonFile(file.filename, file.tools)
        ELSE IF ext \in JavascriptExtensions
        THEN ReviewJavascriptFile(file.filename, file.tools)
        ELSE IF ext = <<".", "g", "o">> THEN ReviewGoFile(file.filename, file.tools)
        ELSE <<>>

\* Lines 161-167 of the bandit adapter.
BanditSeverity(issue_severity) ==
    IF issue_severity = "HIGH" THEN "high"
    ELSE IF issue_severity = "MEDIUM" THEN "medium"
    ELSE "low"

RECURSIVE BanditResults(_, _)
BanditResults(repo_path, results) ==
    IF results = <<>> THEN <<>>
    ELSE LET result == Head(results)
         IN  <<[file |-> repo_path,
                line |-> Get(result, "line_number", 0),
                message |-> "Security issue: " \o Get(result, "issue_text", ""),
                severity |-> BanditSeverity(Get(result, "issue_severity", "")),
                type |-> "security",
                code |-> Get(result, "test_id", "unknown"),
                suggestion |-> Get(result, "more_info", "")]>>
             \o BanditResults(repo_path, Tail(results))

\* _check_python_security
CheckPythonSecurity(repo_path, tools) ==
    IF tools.bandit.ok THEN BanditResults(repo_path, tools.bandit.out) ELSE <<>>

\* The body of the loop of SecurityReviewer.review for one file (lines
\* 76-89); the JavaScript and Java checks return [].
SecurityFileIssues(file) ==
    CheckSecurityPatterns(file.filename, file.content)
    \o (IF Lower(GetFileExtension(file.filename)) = <<".", "p", "y">>
        THEN CheckPythonSecurity(file.filename, file.tools)
        ELSE <<>>)

---------------------------------------------------------------------------
(* The review loops of the three reviewers                                 *)

\* A bug a reviewer could have: the list is an attribute of the object.
RetainedAll(issues) == issues

\* issues = [] (style_reviewer.py:39, security_reviewer.py:68,
\* quality_reviewer.py:41): the list a review call fills is a local the call
\* creates, so the reviewer object holds none of it once the call returned.
RetainedIssues(issues) == <<>>

\* for file in files: issues.extend(...).  Every file handed over was just
\* downloaded, so os.path.exists(file['local_path']) holds.
RECURSIVE StyleLoop(_)
StyleLoop(files) ==
    IF files = <<>> THEN <<>>
    ELSE StyleFileIssues(Head(files)) \o StyleLoop(Tail(files))

\* A loop bug: the files are taken last first.
RECURSIVE SecurityLoopLastFirst(_)
SecurityLoopLastFirst(files) ==
    IF files = <<>> THEN <<>>
    ELSE SecurityLoopLastFirst(Tail(files)) \o SecurityFileIssues(Head(files))

RECURSIVE SecurityLoop(_)
SecurityLoop(files) ==
    IF files = <<>> THEN <<>>
    ELSE SecurityFileIssues(Head(files)) \o SecurityLoop(Tail(files))

RECURSIVE QualityLoop(_)
QualityLoop(files) ==
    IF files = <<>> THEN <<>>
    ELSE QualityFileIssues(Head(files)) \o QualityLoop(Tail(files))

\* The issues a review call returns, held being what the reviewer object
\* held when the call began.
StyleReview(held, files) == held \o StyleLoop(files)
SecurityReview(held, files) == held \o SecurityLoop(files)
QualityReview(held, files) == held \o QualityLoop(files)

---------------------------------------------------------------------------
(* _format_results                                                         *)
(*                                                                         *)
(* A text is the sequence of its lines, a line the sequence of the strings *)
(* the f-string puts together (the quotes around a path are left out).     *)

\* str.upper() on a severity.
Upper ==
    [critical |-> "CRITICAL", high |-> "HIGH", medium |-> "MEDIUM",
     low |-> "LOW", info |-> "INFO"]

\* The characters of a path as one string.
RECURSIVE JoinChars(_)
JoinChars(chars) ==
    IF chars = <<>> THEN "" ELSE Head(chars) \o JoinChars(Tail(chars))

\* A rendering bug: the line is read with a default instead of being tested.
FormatIssueDefaultLine(issue) ==
    <<<<"- **", Upper[issue.severity], "**: ", issue.message>>,
      <<"  - File: ", JoinChars(issue.file)>>,
      <<"  - Line: ", ToString(Get(issue, "line", 0))>>>>
    \o (IF "suggestion" \in DOMAIN issue
        THEN <<<<"  - Suggestion: ", issue.suggestion>>>> ELSE <<>>)
    \o <<<<"">>>>

\* Lines 291-297: the entry of one issue.
FormatIssue(issue) ==
    <<<<"- **", Upper[issue.severity], "**: ", issue.message>>,
      <<"  - File: ", JoinChars(issue.file)>>>>
    \o (IF "line" \in DOMAIN issue
        THEN <<<<"  - Line: ", ToString(issue.line)>>>> ELSE <<>>)
    \o (IF "suggestion" \in DOMAIN issue
        THEN <<<<"  - Suggestion: ", issue.suggestion>>>> ELSE <<>>)
    \o <<<<"">>>>

RECURSIVE FormatIssues(_)
FormatIssues(category_issues) ==
    IF category_issues = <<>> THEN <<>>
    ELSE FormatIssue(Head(category_issues)) \o FormatIssues(Tail(category_issues))

\* Lines 278-282: the titles of the categories dictionary.
CategoryTitles ==
    [style |-> "## Style Issues", security |-> "## Security Issues",
     quality |-> "## Code Quality Issues"]

\* Lines 284-298: the text of one category.
FormatCategory(category, category_issues) ==
    <<<<CategoryTitles[category]>>, <<"">>>>
    \o (IF category_issues = <<>> THEN <<<<"No issues found.">>, <<"">>>>
        ELSE FormatIssues(category_issues))

\* Lines 264-275: the header.
FormatHeader(s, pr) ==
    <<<<"# Code Review: ", pr.title>>, <<"">>,
      <<"## Summary">>, <<"">>,
      <<"- **Score**: ", ToString(s.score), "/100">>,
      <<"- **Verdict**: ", s.verdict>>,
      <<"- **Total Issues**: ", ToString(s.total_issues)>>,
      <<"  - Critical: ", ToString(s.issues_by_severity["critical"]),
        ", High: ", ToString(s.issues_by_severity["high"]),
        ", Medium: ", ToString(s.issues_by_severity["medium"]),
        ", Low: ", ToString(s.issues_by_severity["low"]),
        ", Info: ", ToString(s.issues_by_severity["info"])>>,
      <<"">>>>

\* _format_results(results, pr)
FormatResultsOf(results, pr) ==
    [header |-> FormatHeader(results.summary, pr),
     categories |-> [category \in Categories |->
                        FormatCategory(category, results[category])],
     raw_results |-> results]

---------------------------------------------------------------------------
(* review_pull_request: Spec                                               *)
(*                                                                         *)
(* A pull request lists up to MaxFiles files, in any order, out of the     *)
(* files below.  A file carries what the program reads of it: its path and *)
(* status, whether its content can be fetched, its lines, and what each    *)
(* external tool prints for it.                                            *)

MaxFiles == 2

ToolFails == [ok |-> FALSE, out |-> <<>>]

NoTools ==
    [flake8 |-> ToolFails, pylint |-> ToolFails, eslint |-> ToolFails,
     gofmt |-> [ok |-> FALSE, out |-> FALSE], golint |-> ToolFails,
     bandit |-> ToolFails]

File(filename, status, fetched, content, tools) ==
    [filename |-> filename, status |-> status, fetched |-> fetched,
     content |-> content, tools |-> tools]

APy ==
    File(<<"a", ".", "p", "y">>, "modified", TRUE,
         <<<<"def", "debug", "(", "x", ")", ":">>,
           <<" ", "if", "x", "and", "x", ":">>,
           <<" ", "password", "=", "'s3cret'">>,
           <<" ", "print", "(", "x", ")">>,
           <<>>,
           <<"#", "x", "=", "f", "(", "x", ")">>>>,
         [NoTools EXCEPT
            !.flake8 = [ok |-> TRUE, out |->
                <<[nparts |-> 5, row_ok |-> TRUE, row |-> 1, col_ok |-> TRUE,
                   col |-> 1, first |-> "F", code |-> "F401", text |-> "unused import"],
                  [nparts |-> 2, row_ok |-> FALSE, row |-> 0, col_ok |-> FALSE,
                   col |-> 0, first |-> "", code |-> "", text |-> ""],
                  [nparts |-> 5, row_ok |-> TRUE, row |-> 2, col_ok |-> TRUE,
                   col |-> 5, first |-> "W", code |-> "W291", text |-> "trailing whitespace"],
                  [nparts |-> 5, row_ok |-> TRUE, row |-> 4, col_ok |-> TRUE,
                   col |-> 1, first |-> "E", code |-> "E501", text |-> "line too long"],
                  [nparts |-> 5, row_ok |-> FALSE, row |-> 0, col_ok |-> TRUE,
                   col |-> 1, first |-> "E", code |-> "E999", text |-> "syntax error"],
                  [nparts |-> 5, row_ok |-> TRUE, row |-> 6, col_ok |-> TRUE,
                   col |-> 1, first |-> "E", code |-> "E265", text |-> "block comment"]>>],
            !.pylint = [ok |-> TRUE, out |->
                <<<<"a.py", "3", " [C0111] missing docstring">>,
                  <<"a.py", "4", " [W0612] unused", " variable">>>>],
            !.bandit = [ok |-> TRUE, out |->
                <<[issue_severity |-> "HIGH", issue_text |-> "exec used"],
                  [issue_severity |-> "MEDIUM", line_number |-> 1,
                   test_id |-> "B101"],
                  [issue_severity |-> "LOW", line_number |-> 3,
                   issue_text |-> "hardcoded password", test_id |-> "B105",
                   more_info |-> "https://bandit.readthedocs.io"]>>]])

BJs ==
    File(<<"b", ".", "j", "s">>, "added", TRUE,
         <<<<"function", "g", "(", ")", "{">>,
           <<" ", "x", ".", "innerHTML", "=", "x", "+", "x">>,
           <<"}">>>>,
         [NoTools EXCEPT
            !.eslint = [ok |-> TRUE, out |->
                <<[filePath |-> "b.js", messages |->
                     <<[severity |-> 2, line |-> 2, column |-> 1,
                        ruleId |-> "no-undef", message |-> "x is not defined"],
                       [severity |-> 1, message |-> "File ignored"]>>],
                  [filePath |-> "b.js"]>>]])

YarnLock ==
    File(<<"y", "a", "r", "n", ".", "l", "o", "c", "k">>, "modified", TRUE,
         <<<<"x", "=", "x">>, <<"token", ":", "'s3cret'">>>>, NoTools)

NodeModule ==
    File(<<"n", "o", "d", "e", "_", "m", "o", "d", "u", "l", "e", "s", "/", "x", ".", "j", "s">>, "added", TRUE,
         <<<<"console.log", "(", "x", ")">>>>, NoTools)

OldPy ==
    File(<<"o", "l", "d", ".", "p", "y">>, "removed", TRUE,
         <<<<"print", "(", "x", ")">>>>, NoTools)

LogoPng == File(<<"l", "o", "g", "o", ".", "P", "N", "G">>, "added", TRUE, <<>>, NoTools)

Makefile == File(<<"M", "a", "k", "e", "f", "i", "l", "e">>, "modified", TRUE, <<<<"x", ":">>>>, NoTools)

MGo ==
    File(<<"m", ".", "g", "o">>, "modified", TRUE,
         <<<<"func", "h", "(", ")", "{", "}">>>>,
         [NoTools EXCEPT
            !.gofmt = [ok |-> TRUE, out |-> TRUE],
            !.golint = [ok |-> TRUE, out |->
                <<[nparts |-> 3, row_ok |-> TRUE, row |-> 1,
                   text |-> "exported func h should have comment"],
                  [nparts |-> 1, row_ok |-> FALSE, row |-> 0, text |-> ""],
                  [nparts |-> 3, row_ok |-> FALSE, row |-> 0, text |-> "bad"],
                  [nparts |-> 3, row_ok |-> TRUE, row |-> 2, text |-> "late"]>>]])

TPy == File(<<"t", ".", "p", "y">>, "added", TRUE, <<>>, NoTools)

CPy ==
    File(<<"c", ".", "p", "y">>, "added", FALSE,
         <<<<"print", "(", "x", ")">>>>, NoTools)

DRb ==
    File(<<"d", ".", "r", "b">>, "modified", TRUE,
         [i \in 1..10 |-> <<"x", "=", "y">>], NoTools)

PRFileSet ==
    {APy, BJs, YarnLock, NodeModule, OldPy, LogoPng, Makefile, MGo, TPy, CPy,
     DRb}

\* The lists of up to n files of S, no path twice: GitHub lists a changed
\* path once.
RECURSIVE Batches(_, _)
Batches(S, n) ==
    IF n = 0 THEN {<<>>}
    ELSE LET shorter == Batches(S, n - 1)
             longest == {b \in shorter : Len(b) = n - 1}
             New(b) == {f \in S : \A i \in 1..Len(b) : b[i].filename # f.filename}
         IN  shorter \cup UNION {{Append(b, f) : f \in New(b)} : b \in longest}

\* The pull request reviewed: its title is all the program reads of it.
PullRequest == [number |-> 1, title |-> "Fix"]

\* download_files: removed files are skipped, and so is a file whose
\* content cannot be fetched (the exception is logged).
RECURSIVE DownloadFiles(_)
DownloadFiles(files) ==
    IF files = <<>> THEN <<>>
    ELSE (IF Head(files).status = "removed" \/ ~Head(files).fetched THEN <<>>
          ELSE <<Head(files)>>)
         \o DownloadFiles(Tail(files))

\* The issues of a list that are about one path.
IssuesOfFile(issues, filename) ==
    SelectSeq(issues, LAMBDA issue : issue.file = filename)

Init ==
    /\ pc = "idle"
    /\ pr_files = <<>>
    /\ downloaded_files = <<>>
    /\ filtered_files = <<>>
    /\ style_results = <<>>
    /\ security_results = <<>>
    /\ quality_results = <<>>
    /\ summary = None
    /\ formatted_results = None
    /\ exception = None
    /\ retained = [style |-> <<>>, security |-> <<>>, quality |-> <<>>]
    /\ remembered = <<>>
    /\ returned = None
    /\ FinderIdle /\ ConfigIdle /\ AllIdle

\* review_pull_request, lines 50-58: the files of the pull request are
\* listed and downloaded.
Download(files) ==
    /\ pc \in {"idle", "returned"}
    /\ pr_files' = files
    /\ downloaded_files' = DownloadFiles(files)
    /\ filtered_files' = <<>>
    /\ style_results' = <<>>
    /\ security_results' = <<>>
    /\ quality_results' = <<>>
    /\ summary' = None
    /\ formatted_results' = None
    /\ exception' = None
    /\ pc' = "downloaded"
    /\ returned' = None
    /\ UNCHANGED <<retained, remembered>>
    /\ UNCHANGED <<finderVars, configVars, allVars>>

\* _run_reviews(downloaded_files, pr); an exception of _generate_summary
\* leaves review_pull_request through its finally clause.
RunReviews ==
    /\ pc = "downloaded"
    /\ LET files == FilterFilesForReview(downloaded_files)
           style == StyleReview(retained.style, files)
           security == SecurityReview(retained.security, files)
           quality == QualityReview(retained.quality, files)
           s == GenerateSummary(style, security, quality)
       IN  /\ filtered_files' = files
           /\ style_results' = style
           /\ security_results' = security
           /\ quality_results' = quality
           /\ retained' = [style |-> RetainedIssues(style),
                           security |-> RetainedIssues(security),
                           quality |-> RetainedIssues(quality)]
           /\ IF "raised" \in DOMAIN s
              THEN /\ exception' = s.raised
                   /\ summary' = None
                   /\ pc' = "idle"
              ELSE /\ exception' = None
                   /\ summary' = s
                   /\ pc' = "reviewed"
    /\ UNCHANGED <<pr_files, downloaded_files, formatted_results, remembered>>
    /\ UNCHANGED <<returned, finderVars, configVars, allVars>>

\* formatted_results = self._format_results(review_results, pr)
FormatResults ==
    /\ pc = "reviewed"
    /\ formatted_results' =
           FormatResultsOf([style |-> style_results,
                            security |-> security_results,
                            quality |-> quality_results,
                            summary |-> summary], PullRequest)
    /\ pc' = "formatted"
    /\ UNCHANGED <<pr_files, downloaded_files, filtered_files, style_results,
                   security_results, quality_results, summary, exception,
                   retained, remembered>>
    /\ UNCHANGED <<returned, finderVars, configVars, allVars>>

\* The dictionary _run_reviews builds (lines 131-136) and review_pull_request
\* returns (line 72); a reviewer's result holds its issues and their count.
ReviewResults(style, security, quality, s) ==
    [style |-> [issues |-> style, count |-> Len(style)],
     security |-> [issues |-> security, count |-> Len(security)],
     quality |-> [issues |-> quality, count |-> Len(quality)],
     summary |-> s]

\* Lines 66-77: the report is printed and posted and the results returned.
\* The history may take one of the files reviewed, with the issues the
\* three reviewers reported for it.
ReturnResults ==
    /\ pc = "formatted"
    /\ pc' = "returned"
    /\ returned' = ReviewResults(style_results, security_results,
                                 quality_results, summary)
    /\ \/ UNCHANGED remembered
       \/ /\ remembered = <<>>
          /\ \E i \in 1..Len(filtered_files) :
                remembered' =
                    <<[file |-> filtered_files[i],
                       style |-> IssuesOfFile(style_results, filtered_files[i].filename),
                       security |-> IssuesOfFile(security_results, filtered_files[i].filename),
                       quality |-> IssuesOfFile(quality_results, filtered_files[i].filename)]>>
    /\ UNCHANGED <<pr_files, downloaded_files, filtered_files, style_results,
                   security_results, quality_results, summary,
                   formatted_results, exception, retained>>
    /\ UNCHANGED <<finderVars, configVars, allVars>>

Next ==
    \/ \E files \in Batches(PRFileSet, MaxFiles) : Download(files)
    \/ RunReviews
    \/ FormatResults
    \/ ReturnResults

Spec == Init /\ [][Next]_vars

Reviewed == pc \in {"reviewed", "formatted"}

Results ==
    [style |-> style_results, security |-> security_results,
     quality |-> quality_results]

\* C5: aggregation (filter, the three reviewers, _generate_summary,
\* _format_results) never raises, whatever the detectors return for the
\* batch, and for an empty batch it yields total_issues = 0 and score = 100.
C5_AggregationNeverRaises ==
    /\ exception = None
    /\ (Reviewed /\ downloaded_files = <<>>) =>
           /\ summary.total_issues = 0
           /\ summary.score = 100
    /\ (pc = "formatted" /\ downloaded_files = <<>>) =>
           formatted_results.header[7] = <<"- **Total Issues**: ", "0">>

\* A batch of two files with issues in every category went through.
C5_Witness ==
    /\ pc = "formatted"
    /\ Len(filtered_files) = 2
    /\ style_results # <<>> /\ security_results # <<>> /\ quality_results # <<>>
    /\ exception = None

HasLine(issue) == "line" \in DOMAIN issue
HasSuggestion(issue) == "suggestion" \in DOMAIN issue

\* The entry the report is to show for an issue.
EntryOf(issue) ==
    <<<<"- **", Upper[issue.severity], "**: ", issue.message>>>>
    \o <<<<"  - File: ", JoinChars(issue.file)>>>>
    \o (IF HasLine(issue) THEN <<<<"  - Line: ", ToString(issue.line)>>>> ELSE <<>>)
    \o (IF HasSuggestion(issue) THEN <<<<"  - Suggestion: ", issue.suggestion>>>>
        ELSE <<>>)
    \o <<<<"">>>>

RECURSIVE EntriesOf(_)
EntriesOf(issues) ==
    IF issues = <<>> THEN <<>> ELSE EntryOf(Head(issues)) \o EntriesOf(Tail(issues))

SectionTitle(category) ==
    CASE category = "style" -> "## Style Issues"
      [] category = "security" -> "## Security Issues"
      [] category = "quality" -> "## Code Quality Issues"

RECURSIVE GlobMatch(_, _)
GlobMatch(filename, pattern) ==
    IF pattern = <<>> THEN filename = <<>>
    ELSE IF Head(pattern) = "*"
         THEN \E k \in 0..Len(filename) :
                  GlobMatch(SubSeq(filename, k + 1, Len(filename)), Tail(pattern))
         ELSE /\ filename # <<>>
              /\ Head(filename) = Head(pattern)
              /\ GlobMatch(Tail(filename), Tail(pattern))

\* A pattern ending in "/" names a directory and excludes what lies in it;
\* any other pattern is matched against the whole path.
ExcludedByGlob(filename, pattern) ==
    IF pattern[Len(pattern)] = "/"
    THEN \E i \in 0..(Len(filename) - Len(pattern)) :
            /\ SubSeq(filename, i + 1, i + Len(pattern)) = pattern
            /\ i = 0 \/ filename[i] = "/"
    ELSE GlobMatch(filename, pattern)

BinaryExtensions ==
    {<<".", "p", "n", "g">>, <<".", "j", "p", "g">>, <<".", "j", "p", "e", "g">>,
     <<".", "g", "i", "f">>, <<".", "s", "v", "g">>, <<".", "p", "d", "f">>}

ToBeDropped(file) ==
    \/ file.status = "removed"
    \/ \E p \in 1..Len(DefaultExcludePatterns) :
           ExcludedByGlob(file.filename, DefaultExcludePatterns[p])
    \/ GetFileExtension(file.filename) = <<>>
    \/ Lower(GetFileExtension(file.filename)) \in BinaryExtensions

ReviewedPaths == {filtered_files[i].filename : i \in 1..Len(filtered_files)}

\* C7: the aggregator drops every removed file, every file whose path
\* matches a configured exclusion glob and every file without extension or
\* with a binary/media extension; every other file goes to the three
\* reviewers, and no issue is about a dropped file.
C7_FilterDropsExcludedFiles ==
    Reviewed =>
        /\ filtered_files =
               SelectSeq(downloaded_files, LAMBDA file : ~ToBeDropped(file))
        /\ \A category \in Categories :
              \A i \in 1..Len(Results[category]) :
                  Results[category][i].file \in ReviewedPaths

\* Characters of the paths, in code point order.
CodePointOrder ==
    <<".", "/", "G", "M", "N", "P", "_", "a", "b", "c", "d", "e", "f", "g",
      "h", "i", "j", "k", "l", "m", "n", "o", "p", "q", "r", "s", "t", "u",
      "v", "w", "x", "y", "z">>

CodePoint(c) == CHOOSE k \in 1..Len(CodePointOrder) : CodePointOrder[k] = c

RECURSIVE PathBefore(_, _)
PathBefore(p, q) ==
    IF q = <<>> THEN FALSE
    ELSE IF p = <<>> THEN TRUE
    ELSE IF Head(p) = Head(q) THEN PathBefore(Tail(p), Tail(q))
    ELSE CodePoint(Head(p)) < CodePoint(Head(q))

SeverityRank ==
    [info |-> 0, low |-> 1, medium |-> 2, high |-> 3, critical |-> 4]

\* An issue without a line sorts before every line number.
LineKey(issue) == IF HasLine(issue) THEN issue.line ELSE -1

\* a may stand before b in a list sorted by path, line, severity descending.
SortedPair(a, b) ==
    \/ PathBefore(a.file, b.file)
    \/ /\ a.file = b.file
       /\ \/ LineKey(a) < LineKey(b)
          \/ /\ LineKey(a) = LineKey(b)
             /\ SeverityRank[a.severity] >= SeverityRank[b.severity]

\* C8 as stated: in the final report the issues are sorted by file path,
\* then line (no line first), then severity descending.
C8_ReportSorted ==
    pc = "formatted" =>
        \A category \in Categories :
            LET issues == formatted_results.raw_results[category]
            IN  \A i, j \in 1..Len(issues) :
                    i < j => SortedPair(issues[i], issues[j])

PositionOf(filename) ==
    CHOOSE k \in 1..Len(filtered_files) : filtered_files[k].filename = filename

RuleRank(check_name) == CHOOSE k \in 1..Len(CheckNames) : CheckNames[k] = check_name

IsPatternIssue(issue) == issue.code \in {CheckNames[k] : k \in 1..Len(CheckNames)}

BulletsOf(text) == SelectSeq(text, LAMBDA l : l[1] = "- **")

\* C8 as amended: each section of the report lists the issues in the order
\* the reviewer produced them, unsorted: file by file in the order the
\* files were supplied, and for the security patterns of one file rule by
\* rule in the order of the rule table, by ascending line within a rule.
C8_ReportInProductionOrder ==
    pc = "formatted" =>
        \A category \in Categories :
            LET issues == Results[category]
                bullets == BulletsOf(formatted_results.categories[category])
            IN  /\ Len(bullets) = Len(issues)
                /\ \A i \in 1..Len(issues) : bullets[i][4] = issues[i].message
                /\ \A i, j \in 1..Len(issues) :
                       i < j => PositionOf(issues[i].file) <= PositionOf(issues[j].file)
                /\ category = "security" =>
                       \A i, j \in 1..Len(issues) :
                           (/\ i < j
                            /\ issues[i].file = issues[j].file
                            /\ IsPatternIssue(issues[i])
                            /\ IsPatternIssue(issues[j]))
                           => \/ RuleRank(issues[i].code) < RuleRank(issues[j].code)
                              \/ /\ issues[i].code = issues[j].code
                                 /\ issues[i].line < issues[j].line

\* Two files with security issues were reviewed, and an issue of a later
\* line stands before an issue of an earlier line of the same file.
C8_Witness ==
    /\ pc = "formatted"
    /\ Len(filtered_files) = 2
    /\ \A k \in 1..2 :
          \E i \in 1..Len(security_results) :
              security_results[i].file = filtered_files[k].filename
    /\ \E i, j \in 1..Len(security_results) :
          /\ i < j
          /\ security_results[i].file = security_results[j].file
          /\ IsPatternIssue(security_results[i])
          /\ IsPatternIssue(security_results[j])
          /\ security_results[i].line > security_results[j].line

\* C9: reviewing the same file again, with the same reviewer objects and
\* whatever was reviewed in between, reports the same issues for it in the
\* same order; the reviewers hold nothing of an earlier review call.
C9_ReviewIdempotent ==
    /\ \A category \in Categories : retained[category] = <<>>
    /\ Reviewed =>
           \A i \in 1..Len(filtered_files), k \in 1..Len(remembered) :
               remembered[k].file = filtered_files[i] =>
                   \A category \in Categories :
                       IssuesOfFile(Results[category], filtered_files[i].filename)
                           = remembered[k][category]

\* A file reviewed earlier is reviewed again, after another file of the
\* same batch, and has issues in every category.
C9_Witness ==
    /\ pc = "reviewed"
    /\ Len(remembered) = 1
    /\ Len(filtered_files) = 2
    /\ filtered_files[2] = remembered[1].file
    /\ \A category \in Categories : remembered[1][category] # <<>>
    /\ style_results[1].file # remembered[1].file.filename

\* C15: the value review_pull_request returns has the keys 'score',
\* 'verdict' and 'issue_counts' at its top level, 'issue_counts' mapping
\* each severity to a count, as the test script reads them.
C15_ResultKeysAtTopLevel ==
    pc = "returned" =>
        /\ {"score", "verdict", "issue_counts"} \subseteq DOMAIN returned
        /\ returned["score"] \in 0..100
        /\ DOMAIN returned["issue_counts"] = Severities

---------------------------------------------------------------------------
(* The summary of a collection of issues: SummarySpec                      *)
(*                                                                         *)
(* The three reviewers hand their issue lists to _generate_summary.  The   *)
(* lists grow one issue at a time; the summary may be computed of any      *)
(* collection reached.  The security scanner's critical rules lead its     *)
(* rule table, so a run of up to MaxCritical critical issues may lead the  *)
(* security list; besides that run a collection holds up to MaxExtra       *)
(* issues of any severity in any category and order.                       *)

MaxCritical == 11
MaxExtra == 3

\* An issue as the reviewers build it, reduced to the keys the summary and
\* the report read.
MkIssue(category, severity) ==
    [file |-> "f", message |-> "m", severity |-> severity, type |-> category]

RECURSIVE LeadingCriticals(_)
LeadingCriticals(list) ==
    IF list = <<>> \/ Head(list).severity # "critical" THEN 0
    ELSE 1 + LeadingCriticals(Tail(list))

ResultsOf(category) ==
    CASE category = "style" -> style_results
      [] category = "security" -> security_results
      [] category = "quality" -> quality_results

SummaryInit ==
    /\ pc = "collect"
    /\ pr_files = <<>>
    /\ filtered_files = <<>>
    /\ style_results = <<>>
    /\ security_results = <<>>
    /\ quality_results = <<>>
    /\ summary = None
    /\ formatted_results = None
    /\ exception = None
    /\ downloaded_files = <<>>
    /\ retained = [style |-> <<>>, security |-> <<>>, quality |-> <<>>]
    /\ remembered = <<>>
    /\ returned = None
    /\ FinderIdle /\ ConfigIdle /\ AllIdle

\* A reviewer appends one more issue to its list (issues.append / extend).
Emit(category, severity) ==
    LET new == Append(ResultsOf(category), MkIssue(category, severity))
        style == IF category = "style" THEN new ELSE style_results
        security == IF category = "security" THEN new ELSE security_results
        quality == IF category = "quality" THEN new ELSE quality_results
    IN  /\ pc \in {"collect", "summarized"}
        /\ LeadingCriticals(security) <= MaxCritical
        /\ Len(style) + Len(quality) + Len(security)
               - LeadingCriticals(security) <= MaxExtra
        /\ style_results' = style
        /\ security_results' = security
        /\ quality_results' = quality
        /\ pc' = "collect"
        /\ summary' = None
        /\ UNCHANGED <<pr_files, downloaded_files, filtered_files,
                       formatted_results, exception, retained, remembered>>
        /\ UNCHANGED <<returned, finderVars, configVars, allVars>>

\* _generate_summary(style_results, security_results, quality_results)
Summarize ==
    /\ pc = "collect"
    /\ LET s == GenerateSummary(style_results, security_results, quality_results)
       IN  IF "raised" \in DOMAIN s
           THEN /\ exception' = s.raised
                /\ summary' = None
                /\ pc' = "raised"
           ELSE /\ summary' = s
                /\ exception' = None
                /\ pc' = "summarized"
    /\ UNCHANGED <<pr_files, downloaded_files, filtered_files, style_results,
                   security_results, quality_results, formatted_results,
                   retained, remembered>>
    /\ UNCHANGED <<returned, finderVars, configVars, allVars>>

SummaryNext ==
    \/ \E category \in Categories, severity \in Severities : Emit(category, severity)
    \/ Summarize

SummarySpec == SummaryInit /\ [][SummaryNext]_vars

AllIssues == style_results \o security_results \o quality_results

\* Number of issues of one severity over the union of the three categories.
NumOf(severity) ==
    Cardinality({i \in 1..Len(AllIssues) : AllIssues[i].severity = severity})

Clamp(x, lo, hi) == IF x < lo THEN lo ELSE IF x > hi THEN hi ELSE x

\* C1: the summary score is clamp(100 - 10*critical - 5*high - 2*medium - low,
\* 0, 100) with the counts taken over the union of the three categories, info
\* issues not counting; exactly one critical, one high and one medium issue
\* give score 83 and the verdict "Good code quality with minor issues.".
C1_ScoreFormula ==
    pc = "summarized" =>
        /\ summary.score = Clamp(100 - 10 * NumOf("critical") - 5 * NumOf("high")
                                     - 2 * NumOf("medium") - NumOf("low"), 0, 100)
        /\ (/\ NumOf("critical") = 1 /\ NumOf("high") = 1 /\ NumOf("medium") = 1
            /\ Len(AllIssues) = 3)
           => /\ summary.score = 83
              /\ summary.verdict = "Good code quality with minor issues."

C1_Witness ==
    /\ pc = "summarized"
    /\ NumOf("critical") = 1 /\ NumOf("high") = 1 /\ NumOf("medium") = 1
    /\ Len(AllIssues) = 3
    /\ Len(style_results) = 1 /\ Len(security_results) = 1
    /\ summary.score = 83

\* C2: the score is in 0..100, and adding any single issue of any severity to
\* any category never raises the score _generate_summary computes.
C2_ScoreMonotone ==
    pc = "summarized" =>
        /\ summary.score \in 0..100
        /\ \A category \in Categories, severity \in Severities :
              LET issue == MkIssue(category, severity)
                  more == GenerateSummary(
                      IF category = "style" THEN Append(style_results, issue)
                                            ELSE style_results,
                      IF category = "security" THEN Append(security_results, issue)
                                               ELSE security_results,
                      IF category = "quality" THEN Append(quality_results, issue)
                                              ELSE quality_results)
              IN  more.score <= summary.score

\* The lower clamp is active: the deductions exceed 100.
C2_Witness ==
    /\ pc = "summarized"
    /\ 10 * NumOf("critical") + 5 * NumOf("high") + 2 * NumOf("medium")
           + NumOf("low") > 100
    /\ summary.score = 0

\* C3: in every summary the five values of issues_by_severity sum to
\* total_issues, and total_issues is the number of issues of the style,
\* security and quality results together.
C3_SeveritiesSumToTotal ==
    pc = "summarized" =>
        /\ DOMAIN summary.issues_by_severity = Severities
        /\ summary.issues_by_severity["critical"] + summary.issues_by_severity["high"]
               + summary.issues_by_severity["medium"] + summary.issues_by_severity["low"]
               + summary.issues_by_severity["info"] = summary.total_issues
        /\ summary.total_issues
               = Len(style_results) + Len(security_results) + Len(quality_results)
        /\ \A severity \in Severities :
               summary.issues_by_severity[severity] = NumOf(severity)

\* Every category holds an issue, an info issue among them.
C3_Witness ==
    /\ pc = "summarized"
    /\ style_results # <<>> /\ security_results # <<>> /\ quality_results # <<>>
    /\ NumOf("info") > 0
    /\ summary.total_issues = 3

\* The threshold table of the verdicts, as ranges of the score.
VerdictTable ==
    <<[lo |-> 90, hi |-> 100, verdict |-> "Excellent code quality. Approved!"],
      [lo |-> 80, hi |-> 89, verdict |-> "Good code quality with minor issues."],
      [lo |-> 70, hi |-> 79,
       verdict |-> "Acceptable code quality but needs improvement."],
      [lo |-> 50, hi |-> 69,
       verdict |-> "Poor code quality. Significant improvements needed."],
      [lo |-> 0, hi |-> 49,
       verdict |-> "Critical issues found. Must be fixed before merging."]>>

\* C4: the verdict of a score in 0..100 is the one of the single row of the
\* threshold table whose range (inclusive lower bound) holds the score: the
\* rows neither overlap nor leave a gap.
C4_VerdictTable ==
    pc = "summarized" =>
        /\ Cardinality({r \in 1..5 : /\ VerdictTable[r].lo <= summary.score
                                     /\ summary.score <= VerdictTable[r].hi}) = 1
        /\ \A r \in 1..5 :
              (VerdictTable[r].lo <= summary.score
                  /\ summary.score <= VerdictTable[r].hi)
              => summary.verdict = VerdictTable[r].verdict

\* A score on an inclusive lower bound.
C4_Witness ==
    /\ pc = "summarized"
    /\ summary.score = 90
    /\ summary.verdict = "Excellent code quality. Approved!"

---------------------------------------------------------------------------
(* The pattern scanner on one file: ScanSpec                               *)

MaxScanLines == 3

\* Lines with no match, one match, several matches of one pattern, matches
\* of several patterns, and a match of each pattern of the table.
SampleLines ==
    {<<>>,
     <<"x", "=", "x">>,
     <<"password", "=", "'s3cret'">>,
     <<"secret", "=", "'p@ss!'">>,
     <<"print", "x", "print">>,
     <<"token", ":", "'s3cret'", "print", "key", "=", "'s3cret'">>,
     <<"x", "innerHTML", "=", "x", "+", "innerHTML">>,
     <<"execute", "(", "x", "+", "x", ")", "execute", "(", "x", "+", "x", ")">>,
     <<"eval", "(", "x", "+", "x", ")">>,
     <<"x", "=", "Math.random", "(", ")", "+", "Math.random", "(", ")">>}

RECURSIVE SeqsUpTo(_, _)
SeqsUpTo(S, n) ==
    IF n = 0 THEN {<<>>}
    ELSE LET shorter == SeqsUpTo(S, n - 1)
         IN  shorter \cup {Append(q, x) : q \in shorter, x \in S}

ScanPath == <<"a", ".", "p", "y">>

ScanInit ==
    /\ pc = "downloaded"
    /\ \E content \in SeqsUpTo(SampleLines, MaxScanLines) :
          pr_files = <<[filename |-> ScanPath, status |-> "modified",
                        content |-> content]>>
    /\ filtered_files = <<>>
    /\ style_results = <<>>
    /\ security_results = <<>>
    /\ quality_results = <<>>
    /\ summary = None
    /\ formatted_results = None
    /\ exception = None
    /\ downloaded_files = <<>>
    /\ retained = [style |-> <<>>, security |-> <<>>, quality |-> <<>>]
    /\ remembered = <<>>
    /\ returned = None
    /\ FinderIdle /\ ConfigIdle /\ AllIdle

\* pattern_issues = self._check_security_patterns(filename, file['filename'])
ScanFile ==
    /\ pc = "downloaded"
    /\ security_results' =
           CheckSecurityPatterns(pr_files[1].filename, pr_files[1].content)
    /\ pc' = "scanned"
    /\ UNCHANGED <<pr_files, downloaded_files, filtered_files, style_results,
                   quality_results, summary, formatted_results, exception,
                   retained, remembered>>
    /\ UNCHANGED <<returned, finderVars, configVars, allVars>>

ScanNext == ScanFile

ScanSpec == ScanInit /\ [][ScanNext]_vars

\* The pattern matches somewhere in the line.
Matches(check_name, line) ==
    \E i \in 1..Len(line) : MatchLenAt(check_name, line, i) > 0

IssuesFor(check_name, line_no) ==
    {k \in 1..Len(security_results) :
        /\ security_results[k].code = check_name
        /\ security_results[k].line = line_no}

CheckNameSet == {CheckNames[c] : c \in 1..Len(CheckNames)}

\* C10: for every 1-indexed line of the file and every rule of the pattern
\* table the scanner emits exactly one issue when the rule's pattern matches
\* in the line, however many times, and none when it does not; the issue
\* carries the rule's id, message, severity and the suggestion keyed by the
\* rule id; nothing else is emitted.
C10_OneIssuePerRuleAndLine ==
    pc = "scanned" =>
        LET lines == pr_files[1].content
        IN  /\ \A check_name \in CheckNameSet, i \in 1..Len(lines) :
                  Cardinality(IssuesFor(check_name, i)) =
                      IF Matches(check_name, lines[i]) THEN 1 ELSE 0
            /\ \A k \in 1..Len(security_results) :
                  LET issue == security_results[k]
                  IN  /\ issue.code \in CheckNameSet
                      /\ issue.line \in 1..Len(lines)
                      /\ issue.file = pr_files[1].filename
                      /\ issue.message = SecurityPatterns[issue.code].message
                      /\ issue.severity = SecurityPatterns[issue.code].severity
                      /\ issue.suggestion = Suggestions[issue.code]

\* A line on which one rule matches twice and another rule matches too gets
\* one issue for each of the two rules.
C10_Witness ==
    /\ pc = "scanned"
    /\ \E i \in 1..Len(pr_files[1].content) :
          LET line == pr_files[1].content[i]
          IN  /\ Len(FindAll("hardcoded_secrets", line)) = 2
              /\ Len(FindAll("debug_code", line)) = 1
              /\ Cardinality(IssuesFor("hardcoded_secrets", i)) = 1
              /\ Cardinality(IssuesFor("debug_code", i)) = 1
              /\ Cardinality({k \in 1..Len(security_results) :
                                 security_results[k].line = i}) = 2

\* A line that assigns a string literal to a variable named after a secret.
IsSecretAssignment(line) ==
    /\ Len(line) = 3
    /\ line[1] \in SecretWords
    /\ line[2] = "="
    /\ line[3] \in QuotedWords \cup QuotedOthers

\* C11: a line assigning a literal string to a variable named password,
\* secret, key, token or credential produces exactly one critical issue,
\* and that issue has the code hardcoded_secrets.
C11_SecretAssignmentReported ==
    pc = "scanned" =>
        \A i \in 1..Len(pr_files[1].content) :
            IsSecretAssignment(pr_files[1].content[i]) =>
                LET critical == {k \in 1..Len(security_results) :
                                    /\ security_results[k].line = i
                                    /\ security_results[k].severity = "critical"}
                IN  /\ Cardinality(critical) = 1
                    /\ \A k \in critical :
                           security_results[k].code = "hardcoded_secrets"

---------------------------------------------------------------------------
(* QualityReviewer on one file: QualitySpec                                *)
(*                                                                         *)
(* The loop of _find_functions is taken one line at a time, so that the    *)
(* open span and the brace depth can be observed between two lines; the    *)
(* rest of the review of the file is one step.                             *)

MaxFinderLines == 4

FinderLines ==
    {<<"def", "f", "(", ")", ":">>,
     <<" ", "x", "=", "{">>,
     <<"}">>,
     <<>>,
     <<"function", "g", "(", ")", "{">>,
     <<"function", "h", "(", ")", "{", "}">>,
     <<" ", "if", "x", ":", "if", "y", ":">>}

FinderPaths ==
    {<<"a", ".", "p", "y">>, <<"b", ".", "j", "s">>, <<"d", ".", "r", "b">>,
     <<"c", ".", "r", "s">>}

QualityInit ==
    /\ \E filename \in FinderPaths, content \in SeqsUpTo(FinderLines, MaxFinderLines) :
          pr_files = <<[filename |-> filename, status |-> "modified",
                        content |-> content]>>
    /\ pc = IF Lower(GetFileExtension(pr_files[1].filename)) \in FunctionCheckExtensions
            THEN "finding"
            ELSE "not checked"
    /\ complexity = <<>>
    /\ line_num = 0
    /\ functions = FinderStart.functions
    /\ current_function = FinderStart.current
    /\ brace_count = FinderStart.brace_count
    /\ filtered_files = <<>>
    /\ style_results = <<>>
    /\ security_results = <<>>
    /\ quality_results = <<>>
    /\ summary = None
    /\ formatted_results = None
    /\ exception = None
    /\ downloaded_files = <<>>
    /\ retained = [style |-> <<>>, security |-> <<>>, quality |-> <<>>]
    /\ remembered = <<>>
    /\ returned = None
    /\ ConfigIdle /\ AllIdle

FinderExt == Lower(GetFileExtension(pr_files[1].filename))

\* One turn of the loop of _find_functions (lines 206-243).
FindLine ==
    /\ pc = "finding"
    /\ line_num < Len(pr_files[1].content)
    /\ line_num' = line_num + 1
    /\ LET st == FindStep(FinderExt, pr_files[1].content[line_num'], line_num',
                          [functions |-> functions, current |-> current_function,
                           brace_count |-> brace_count])
       IN  /\ functions' = st.functions
           /\ current_function' = st.current
           /\ brace_count' = st.brace_count
    /\ UNCHANGED <<pc, pr_files, downloaded_files, filtered_files, style_results,
                   security_results, quality_results, summary,
                   formatted_results, exception, retained, remembered>>
    /\ UNCHANGED <<returned, complexity, configVars, allVars>>

\* Lines 245-251: the loop is over and the spans are returned.
FindReturn ==
    /\ pc = "finding"
    /\ line_num = Len(pr_files[1].content)
    /\ functions' = FindEnd(pr_files[1].content,
                            [functions |-> functions, current |-> current_function,
                             brace_count |-> brace_count])
    /\ pc' = "found"
    /\ UNCHANGED <<pr_files, downloaded_files, filtered_files, style_results,
                   security_results, quality_results, summary,
                   formatted_results, exception, retained, remembered>>
    /\ UNCHANGED <<returned, line_num, current_function, brace_count,
                   complexity, configVars, allVars>>

\* The checks of QualityReviewer.review on the file (lines 49-68), with the
\* spans _find_functions returned; _check_functions, and with it
\* _find_functions, is not called for a file type outside the list of
\* line 57.
ReviewQuality ==
    /\ pc \in {"found", "not checked"}
    /\ quality_results' = QualityIssuesWith(pr_files[1], functions)
    /\ complexity' =
           IF pc = "found"
           THEN [j \in 1..Len(functions) |->
                    EstimateComplexity(SubSeq(pr_files[1].content,
                                              functions[j].start_line,
                                              functions[j].end_line))]
           ELSE <<>>
    /\ pc' = "reviewed"
    /\ UNCHANGED <<pr_files, downloaded_files, filtered_files, style_results,
                   security_results, summary, formatted_results, exception,
                   retained, remembered>>
    /\ UNCHANGED <<returned, line_num, functions, current_function,
                   brace_count, configVars, allVars>>

QualityNext == FindLine \/ FindReturn \/ ReviewQuality

QualitySpec == QualityInit /\ [][QualityNext]_vars

\* The issues of the review that carry the given suggestion, and of them
\* the ones anchored at the given line.
IssuesSuggesting(suggestion) ==
    {k \in 1..Len(quality_results) : quality_results[k].suggestion = suggestion}

IssuesSuggestingAt(suggestion, line) ==
    {k \in IssuesSuggesting(suggestion) :
        /\ "line" \in DOMAIN quality_results[k]
        /\ quality_results[k].line = line}

FileLengthSuggestion ==
    "Consider breaking the file into smaller, more focused modules"

FunctionLengthSuggestion ==
    "Break down the function into smaller, more focused functions"

ComplexitySuggestion ==
    "Reduce complexity by extracting logic into helper functions"

\* C12: a file of at most file_length lines has no file-length issue; a
\* longer file has exactly one, of medium severity and type quality, that
\* carries no line number.
C12_FileLengthBoundary ==
    pc = "reviewed" =>
        LET found == IssuesSuggesting(FileLengthSuggestion)
        IN  IF Len(pr_files[1].content) <= Thresholds.file_length
            THEN found = {}
            ELSE /\ Cardinality(found) = 1
                 /\ \A k \in found :
                       /\ "line" \notin DOMAIN quality_results[k]
                       /\ quality_results[k].severity = "medium"
                       /\ quality_results[k].type = "quality"

C12_Witness ==
    /\ pc = "reviewed"
    /\ Len(pr_files[1].content) = Thresholds.file_length + 1
    /\ IssuesSuggesting(FileLengthSuggestion) # {}

\* The tokens the control-flow patterns find.
ControlFlowKeywords ==
    UNION {ControlFlowPatterns[q] : q \in 1..Len(ControlFlowPatterns)}

\* The control-flow keyword occurrences in the lines first..last.
KeywordOccurrences(lines, first, last) ==
    SumSeq([i \in 1..(last - first + 1) |->
               Cardinality({k \in 1..Len(lines[first + i - 1]) :
                               lines[first + i - 1][k] \in ControlFlowKeywords})])

\* C13: for every span found, there is one length issue at its start line
\* if its length exceeds function_length and none otherwise, and one
\* complexity issue at its start line if 1 + its control-flow keyword
\* occurrences exceeds the complexity threshold and none otherwise; both
\* are medium quality issues.
C13_FunctionIssuesAtStartLine ==
    pc = "reviewed" =>
        \A j \in 1..Len(functions) :
            LET func == functions[j]
                long == IssuesSuggestingAt(FunctionLengthSuggestion, func.start_line)
                complex == IssuesSuggestingAt(ComplexitySuggestion, func.start_line)
                claimed == 1 + KeywordOccurrences(pr_files[1].content,
                                                     func.start_line, func.end_line)
            IN  /\ Cardinality(long) =
                       IF func.length > Thresholds.function_length THEN 1 ELSE 0
                /\ Cardinality(complex) =
                       IF claimed > Thresholds.complexity THEN 1 ELSE 0
                /\ \A k \in long \cup complex :
                       /\ quality_results[k].type = "quality"
                       /\ quality_results[k].severity = "medium"

\* A line that a start pattern of the file's language matches.
IsStartLine(line) == FirstStart(PatternTypes(FinderExt), 1, line).type # None

C18_Disjoint ==
    /\ \A j, k \in 1..Len(functions) :
           j < k => functions[j].end_line < functions[k].start_line
    /\ pc = "finding" /\ current_function # <<>> =>
           \A j \in 1..Len(functions) :
               functions[j].end_line < current_function[1].start_line

C18_NoReopen ==
    pc = "finding" /\ pc' = "finding"
        /\ current_function # <<>> /\ current_function' # <<>>
        => current_function' = current_function

\* C18: while a span is open no step opens another one, and the spans
\* closed so far and the open one are pairwise disjoint and in increasing
\* order of their start lines, so that no line belongs to two spans.
C18_SingleActiveSpan == [][C18_NoReopen]_vars /\ []C18_Disjoint

C18_Witness ==
    /\ pc = "finding"
    /\ functions # <<>>
    /\ current_function # <<>>
    /\ line_num > current_function[1].start_line
    /\ IsStartLine(pr_files[1].content[line_num])

\* The braces of the lines first..last: the '{' minus the '}'.
BraceBalance(lines, first, last) ==
    SumSeq([i \in 1..(last - first + 1) |->
               Count(lines[first + i - 1], "{") - Count(lines[first + i - 1], "}")])

\* C19: a step closes the open span only when the depth, the line's braces
\* counted, is <= 0 and the line is blank in a Python file or holds a '}'
\* in a file of a brace-based language.
C19_ClosesOnlyAtBlockEnd ==
    [][pc = "finding" /\ pc' = "finding"
           /\ current_function # <<>> /\ current_function' = <<>>
       => LET line == pr_files[1].content[line_num']
          IN  /\ brace_count + Count(line, "{") - Count(line, "}") <= 0
              /\ IF FinderExt = <<".", "p", "y">>
                 THEN Strip(line) = <<>>
                 ELSE Count(line, "}") > 0]_vars

\* C20: between two lines brace_count is 0 when no span is open, and else
\* the '{' minus the '}' of the lines from the start line of the open span
\* to the last line scanned.
C20_DepthIsBraceBalance ==
    pc = "finding" =>
        IF current_function = <<>>
        THEN brace_count = 0
        ELSE brace_count = BraceBalance(pr_files[1].content,
                                        current_function[1].start_line, line_num)

C21_SpansWellFormed ==
    \A j \in 1..Len(functions) :
        /\ 1 <= functions[j].start_line
        /\ functions[j].start_line <= functions[j].end_line
        /\ functions[j].end_line <= Len(pr_files[1].content)
        /\ functions[j].length = functions[j].end_line - functions[j].start_line + 1
        /\ functions[j].length >= 1

\* The span open before the step is the last of the spans after it, closed
\* at the given line, and the spans closed before are all kept.
ClosedLast(end_line) ==
    /\ Len(functions') = Len(functions) + 1
    /\ SubSeq(functions', 1, Len(functions)) = functions
    /\ functions'[Len(functions')].start_line = current_function[1].start_line
    /\ functions'[Len(functions')].name = current_function[1].name
    /\ functions'[Len(functions')].end_line = end_line

C21_OpenSpanReturned ==
    /\ pc = "finding" /\ pc' = "finding"
           /\ current_function # <<>> /\ current_function' # current_function
       => ClosedLast(line_num')
    /\ pc = "finding" /\ pc' = "found" /\ current_function # <<>>
       => ClosedLast(Len(pr_files[1].content))
    /\ pc = "finding" /\ current_function = <<>> => functions' = functions

\* C21: every span of the list has 1 <= start_line <= end_line <= number
\* of lines and length = end_line - start_line + 1 >= 1; a span that stops
\* being the open one, on a line or at the end of the file (then closed at
\* the last line), is appended to the list, and no span leaves the list.
C21_EverySpanClosedAndReturned == []C21_SpansWellFormed /\ [][C21_OpenSpanReturned]_vars

C21_Witness ==
    /\ pc = "found"
    /\ current_function # <<>>
    /\ functions[Len(functions)].end_line = Len(pr_files[1].content)
    /\ ~EndMatch(FinderExt, pr_files[1].content[line_num])

\* C22: the complexity of every span is 1 plus the number of control-flow
\* keyword occurrences in the lines of the span, each occurrence counted.
C22_ComplexityCountsOccurrences ==
    pc = "reviewed" /\ Len(complexity) = Len(functions) =>
        \A j \in 1..Len(functions) :
            complexity[j] = 1 + KeywordOccurrences(pr_files[1].content,
                                                   functions[j].start_line,
                                                   functions[j].end_line)

\* The extensions of the language table of _get_function_patterns.
LanguageTable ==
    {<<".", "p", "y">>, <<".", "j", "s">>, <<".", "j", "a", "v", "a">>,
     <<".", "g", "o">>}

\* C26: for a file that passes the filter and whose extension is not in
\* the language table, the function spans have been searched in all the
\* lines with the default patterns and their complexity estimated.
C26_UnknownLanguageAnalysed ==
    pc = "reviewed" /\ ~Skipped(pr_files[1], Config.exclude_patterns)
                    /\ FinderExt \notin LanguageTable =>
        /\ line_num = Len(pr_files[1].content)
        /\ functions = FindFunctions(pr_files[1].content, <<".", "j", "s">>)
        /\ Len(complexity) = Len(functions)

---------------------------------------------------------------------------
(* _check_duplication on one file: DupSpec                                 *)

MaxDupLines == 10

\* The lines of the files: a file is made of two kinds of lines, a Python
\* file of two of the first three, a JavaScript file of the last two.
DupLines == {<<"x", "=", "y">>, <<>>, <<"#", "c">>}

DupLineKinds == {S \in SUBSET DupLines : Cardinality(S) = 2}

ScriptLineKinds == {{<<"x", "=", "y">>, <<"//", "c">>}}

DupPath == <<"a", ".", "p", "y">>

ScriptPath == <<"b", ".", "j", "s">>

DupFiles ==
    {[filename |-> DupPath, status |-> "modified", content |-> content] :
        content \in UNION {SeqsUpTo(kinds, MaxDupLines) : kinds \in DupLineKinds}}
    \cup
    {[filename |-> ScriptPath, status |-> "modified", content |-> content] :
        content \in UNION {SeqsUpTo(kinds, MaxDupLines) : kinds \in ScriptLineKinds}}

\* The values of 'duplication' in the configuration: none, or a size.
DuplicationSettings == {<<>>, <<3>>}

DupInit ==
    /\ pc = "read"
    /\ \E file \in DupFiles : pr_files = <<file>>
    /\ duplication \in DuplicationSettings
    /\ base_config = None
    /\ override_config = None
    /\ default_config = None
    /\ filtered_files = <<>>
    /\ style_results = <<>>
    /\ security_results = <<>>
    /\ quality_results = <<>>
    /\ summary = None
    /\ formatted_results = None
    /\ exception = None
    /\ downloaded_files = <<>>
    /\ retained = [style |-> <<>>, security |-> <<>>, quality |-> <<>>]
    /\ remembered = <<>>
    /\ returned = None
    /\ FinderIdle /\ AllIdle

\* duplication_issues = self._check_duplication(local_path, file['filename'])
CheckDup ==
    /\ pc = "read"
    /\ quality_results' =
           CheckDuplication(pr_files[1].filename, pr_files[1].content)
    /\ pc' = "checked"
    /\ UNCHANGED <<pr_files, downloaded_files, filtered_files, style_results,
                   security_results, summary, formatted_results, exception,
                   retained, remembered>>
    /\ UNCHANGED <<returned, finderVars, configVars, allVars>>

DupNext == CheckDup

DupSpec == DupInit /\ [][DupNext]_vars

\* The first lines of the 5-line windows of the file.
Windows == 1..(Len(pr_files[1].content) - BlockSize + 1)

\* Line k of the window that begins at line i.
WindowLine(i, k) == pr_files[1].content[i + k - 1]

\* The windows that begin at lines i and j hold the same text.
SameWindow(i, j) == \A k \in 1..BlockSize : WindowLine(i, k) = WindowLine(j, k)

\* A window left out of the grouping: all its lines are blank, or it holds
\* more '#' characters than half the size of a window.
LeftOut(i) ==
    \/ \A k \in 1..BlockSize :
           \A t \in 1..Len(WindowLine(i, k)) : WindowLine(i, k)[t] = " "
    \/ 2 * Cardinality({<<k, t>> \in (1..BlockSize) \X (1..3) :
                           /\ t <= Len(WindowLine(i, k))
                           /\ WindowLine(i, k)[t] = "#"})
           > BlockSize

\* The duplication issues anchored at line i.
DuplicationsAt(i) == {k \in 1..Len(quality_results) : quality_results[k].line = i}

\* What the issue of a group of windows says.
GroupReported(k, group) ==
    /\ quality_results[k].severity = "medium"
    /\ quality_results[k].message =
           "Duplicated code block found at lines " \o JoinNumbers(SortedSeq(group))

\* C14 as stated: every group of identical windows with two or more start
\* lines has exactly one medium issue at its first start line, listing all
\* the start lines in ascending order.
C14_EveryGroupReported ==
    pc = "checked" =>
        \A i \in Windows :
            LET group == {j \in Windows : SameWindow(j, i)}
            IN  Cardinality(group) >= 2 /\ i = SetMin(group) =>
                    /\ Cardinality(DuplicationsAt(i)) = 1
                    /\ \A k \in DuplicationsAt(i) : GroupReported(k, group)

\* C14, amended: a file of fewer than 10 lines has no duplication issue;
\* in a longer file the windows that are not left out are grouped by
\* content, and exactly the groups with two or more start lines have an
\* issue, one each, of medium severity, at the first start line, listing
\* all the start lines of the group in ascending order.
C14_KeptGroupsReported ==
    pc = "checked" =>
        IF Len(pr_files[1].content) < MinDuplicationLines
        THEN quality_results = <<>>
        ELSE /\ \A i \in Windows :
                   LET group == {j \in Windows :
                                    ~LeftOut(j) /\ SameWindow(j, i)}
                   IN  IF Cardinality(group) >= 2 /\ i = SetMin(group)
                       THEN /\ Cardinality(DuplicationsAt(i)) = 1
                            /\ \A k \in DuplicationsAt(i) : GroupReported(k, group)
                       ELSE DuplicationsAt(i) = {}
             /\ \A k \in 1..Len(quality_results) :
                   quality_results[k].line \in Windows

C14_Witness ==
    /\ pc = "checked"
    /\ quality_results # <<>>
    /\ \E i, j \in Windows : i < j /\ LeftOut(i) /\ SameWindow(i, j)

\* A pure comment line in the language of the file.
PureComment(line) ==
    /\ Strip(line) # <<>>
    /\ Head(Strip(line)) = CommentDelimiters(GetFileExtension(pr_files[1].filename)).single

\* The window that begins at line i is blank, or more than half of its
\* lines are pure comment lines.
BlankOrMostlyComments(i) ==
    \/ \A k \in 1..BlockSize : Strip(WindowLine(i, k)) = <<>>
    \/ 2 * Cardinality({k \in 1..BlockSize : PureComment(WindowLine(i, k))})
           > BlockSize

\* C23: in a file the check does not leave out for its length, a window
\* that is blank or mostly made of comment lines is in no reported group,
\* and every other window with an identical window is in the group
\* reported at the first of them.
C23_SkipsBlankAndCommentWindows ==
    pc = "checked" /\ Len(pr_files[1].content) >= MinDuplicationLines =>
        \A i \in Windows :
            LET group == {j \in Windows : SameWindow(j, i)}
            IN  IF /\ ~BlankOrMostlyComments(i)
                   /\ Cardinality(group) >= 2
                   /\ i = SetMin(group)
                THEN Cardinality(DuplicationsAt(i)) = 1
                ELSE DuplicationsAt(i) = {}

\* The size of the window as configured.
ConfiguredSize == IF duplication = <<>> THEN 5 ELSE duplication[1]

\* The first lines of the windows of n lines, and the windows of n lines
\* that begin at lines i and j holding the same lines.
WindowsOf(n) == 1..(Len(pr_files[1].content) - n + 1)

SameWindowOf(n, i, j) ==
    \A k \in 0..(n - 1) : pr_files[1].content[i + k] = pr_files[1].content[j + k]

\* C24: the windows grouped have the configured number of lines: two
\* identical windows of that size that hold code only, in a file the check
\* does not leave out for its length, are reported at the first of them.
C24_ConfiguredWindowSize ==
    pc = "checked" /\ Len(pr_files[1].content) >= MinDuplicationLines =>
        \A i \in WindowsOf(ConfiguredSize) :
            LET n == ConfiguredSize
                group == {j \in WindowsOf(n) : SameWindowOf(n, j, i)}
                code == \A k \in 0..(n - 1) :
                            pr_files[1].content[i + k] = <<"x", "=", "y">>
            IN  code /\ Cardinality(group) >= 2 /\ i = SetMin(group) =>
                    \E k \in DuplicationsAt(i) : GroupReported(k, group)

---------------------------------------------------------------------------
(* _check_commented_code on one file: CommentSpec                          *)

MaxCommentLines == 4

CommentLines ==
    {<<"\"\"\"">>,
     <<" ", "return", "x">>,
     <<"#", "return", "x">>,
     <<"x">>,
     <<"/*">>,
     <<"*/">>,
     <<" ", "return", "x", "*/">>,
     <<"//", "return", "x">>}

CommentPaths == {<<"a", ".", "p", "y">>, <<"b", ".", "j", "s">>}

CommentInit ==
    /\ pc = "read"
    /\ \E filename \in CommentPaths,
          content \in SeqsUpTo(CommentLines, MaxCommentLines) :
          pr_files = <<[filename |-> filename, status |-> "modified",
                        content |-> content]>>
    /\ filtered_files = <<>>
    /\ style_results = <<>>
    /\ security_results = <<>>
    /\ quality_results = <<>>
    /\ summary = None
    /\ formatted_results = None
    /\ exception = None
    /\ downloaded_files = <<>>
    /\ retained = [style |-> <<>>, security |-> <<>>, quality |-> <<>>]
    /\ remembered = <<>>
    /\ returned = None
    /\ FinderIdle /\ ConfigIdle /\ AllIdle

\* commented_code_issues = self._check_commented_code(filename, file['filename'])
CheckComments ==
    /\ pc = "read"
    /\ quality_results' =
           CheckCommentedCode(pr_files[1].filename, pr_files[1].content,
                              GetFileExtension(pr_files[1].filename))
    /\ pc' = "checked"
    /\ UNCHANGED <<pr_files, downloaded_files, filtered_files, style_results,
                   security_results, summary, formatted_results, exception,
                   retained, remembered>>
    /\ UNCHANGED <<returned, finderVars, configVars, allVars>>

CommentNext == CheckComments

CommentSpec == CommentInit /\ [][CommentNext]_vars

\* The positions of a token in a line.
PositionsOf(line, token) == {k \in 1..Len(line) : line[k] = token}

\* The line holds the start delimiter and, after it, the end delimiter.
OpensAndCloses(line, d) ==
    \E a \in PositionsOf(line, d.start) : \E b \in PositionsOf(line, d.end) : a < b

\* The comment lines from line i on: the lines of a multi-line span, from
\* a line with the start delimiter through the next line with the end
\* delimiter, and outside the spans the lines that begin with the
\* single-line marker. inside tells whether line i - 1 left a span open.
RECURSIVE CommentLinesFrom(_, _, _, _)
CommentLinesFrom(lines, d, i, inside) ==
    IF i > Len(lines) THEN {}
    ELSE LET line == lines[i]
         IN  IF inside
             THEN {i} \cup CommentLinesFrom(lines, d, i + 1,
                                            PositionsOf(line, d.end) = {})
             ELSE IF PositionsOf(line, d.start) # {}
             THEN {i} \cup CommentLinesFrom(lines, d, i + 1,
                                            ~OpensAndCloses(line, d))
             ELSE (IF Strip(line) # <<>> /\ Head(Strip(line)) = d.single
                   THEN {i} ELSE {})
                  \cup CommentLinesFrom(lines, d, i + 1, FALSE)

\* The issues of the review anchored at line i.
CommentIssuesAt(i) ==
    {k \in 1..Len(quality_results) : quality_results[k].line = i}

\* C25: every comment line, the lines of a multi-line span and its closing
\* line included, whose text looks like code has exactly one issue, of low
\* severity, and no other line has an issue.
C25_CommentLinesTested ==
    pc = "checked" =>
        LET d == CommentDelimiters(GetFileExtension(pr_files[1].filename))
            comments == CommentLinesFrom(pr_files[1].content, d, 1, FALSE)
        IN  \A i \in 1..Len(pr_files[1].content) :
                IF i \in comments /\ LooksLikeCode(pr_files[1].content[i])
                THEN /\ Cardinality(CommentIssuesAt(i)) = 1
                     /\ \A k \in CommentIssuesAt(i) :
                            quality_results[k].severity = "low"
                ELSE CommentIssuesAt(i) = {}

---------------------------------------------------------------------------
(* ConfigLoader._merge_configs: MergeSpec                                  *)
(*                                                                         *)
(* A configuration value is Dict(items), items being a function from keys  *)
(* to configuration values, or Value(v) for anything that is not a         *)
(* dictionary (numbers, booleans, strings and lists, written as strings).  *)
(* base_config is the dictionary object _merge_configs changes in place.   *)

Value(v) == [kind |-> "value", v |-> v]
Dict(items) == [kind |-> "dict", items |-> items]

\* isinstance(value, dict)
IsDict(value) == value.kind = "dict"

\* A merge that lets a dictionary of the override replace the base's one.
MergeFlat(base_items, override_items) ==
    [key \in DOMAIN base_items \cup DOMAIN override_items |->
        IF key \in DOMAIN override_items THEN override_items[key]
        ELSE base_items[key]]

\* _merge_configs(base_config, override_config): the items of base_config
\* after the call.
RECURSIVE MergeConfigs(_, _)
MergeConfigs(base_items, override_items) ==
    [key \in DOMAIN base_items \cup DOMAIN override_items |->
        IF key \notin DOMAIN override_items THEN base_items[key]
        ELSE IF /\ key \in DOMAIN base_items
                /\ IsDict(base_items[key])
                /\ IsDict(override_items[key])
        THEN Dict(MergeConfigs(base_items[key].items, override_items[key].items))
        ELSE override_items[key]]

\* default_config (lines 21-57), as load_config passes its copy on.
DefaultConfig ==
    Dict([general |-> Dict([check_interval |-> Value("60"),
                            max_prs_per_run |-> Value("10")]),
          style |-> Dict([enabled |-> Value("True"),
                          max_line_length |-> Value("100"),
                          indent_size |-> Value("4")]),
          security |-> Dict([enabled |-> Value("True"),
                             severity_threshold |-> Value("low")]),
          quality |-> Dict([enabled |-> Value("True"),
                            function_length |-> Value("50"),
                            file_length |-> Value("500"),
                            complexity |-> Value("10")]),
          exclude_patterns |-> Value("[node_modules/, ..., package-lock.json]")])

\* The dictionaries of the loader's tests.
TestFileConfig ==
    Dict([general |-> Dict([check_interval |-> Value("30")]),
          style |-> Dict([max_line_length |-> Value("80")])])

TestBaseConfig ==
    Dict([a |-> Value("1"), b |-> Dict([c |-> Value("2"), d |-> Value("3")])])

TestOverrideConfig ==
    Dict([b |-> Dict([c |-> Value("4")]), e |-> Value("5")])

MaxConfigValues == 1

MergeKeys == {"a", "b"}

\* The dictionaries with keys of MergeKeys and values of the given set.
ItemsOver(values) == UNION {[keys -> values] : keys \in SUBSET MergeKeys}

\* The dictionaries of two levels whose leaves are the given word followed
\* by a number.
ConfigsOf(word) ==
    LET leaves == {Value(word \o ToString(n)) : n \in 1..MaxConfigValues}
        nested == leaves \cup {Dict(items) : items \in ItemsOver(leaves)}
    IN  {Dict(items) : items \in ItemsOver(nested)}

BaseConfigs == ConfigsOf("default") \cup {DefaultConfig, TestBaseConfig}

OverrideConfigs == ConfigsOf("file") \cup {TestFileConfig, TestOverrideConfig}

MergeInit ==
    /\ pc = "merging"
    /\ base_config \in BaseConfigs
    /\ override_config \in OverrideConfigs
    /\ duplication = <<>>
    /\ default_config = None
    /\ pr_files = <<>>
    /\ filtered_files = <<>>
    /\ style_results = <<>>
    /\ security_results = <<>>
    /\ quality_results = <<>>
    /\ summary = None
    /\ formatted_results = None
    /\ exception = None
    /\ downloaded_files = <<>>
    /\ retained = [style |-> <<>>, security |-> <<>>, quality |-> <<>>]
    /\ remembered = <<>>
    /\ returned = None
    /\ FinderIdle /\ AllIdle

\* self._merge_configs(base_config, override_config)
Merge ==
    /\ pc = "merging"
    /\ base_config' = Dict(MergeConfigs(base_config.items, override_config.items))
    /\ pc' = "merged"
    /\ UNCHANGED <<pr_files, downloaded_files, filtered_files, style_results,
                   security_results, quality_results, summary,
                   formatted_results, exception, retained, remembered>>
    /\ UNCHANGED <<returned, override_config, duplication, default_config,
                   finderVars, allVars>>

MergeNext == Merge

MergeSpec == MergeInit /\ [][MergeNext]_vars

\* merged holds the keys of base and override; a key the override does
\* not name keeps the base's value; a dictionary of the override is merged
\* in the same way into the base's dictionary of the same key; any other
\* value of the override is the merged value.
RECURSIVE MergedAsClaimed(_, _, _)
MergedAsClaimed(merged, base, override) ==
    /\ DOMAIN merged = DOMAIN base \cup DOMAIN override
    /\ \A key \in DOMAIN base \ DOMAIN override : merged[key] = base[key]
    /\ \A key \in DOMAIN override :
           IF key \in DOMAIN base /\ IsDict(base[key]) /\ IsDict(override[key])
           THEN /\ IsDict(merged[key])
                /\ MergedAsClaimed(merged[key].items, base[key].items,
                                   override[key].items)
           ELSE merged[key] = override[key]

\* C16: _merge_configs leaves in base_config the recursive merge of the
\* override into it: every key of the override is merged (dictionary into
\* dictionary) or replaces or adds the key, and every key of the base the
\* override does not name keeps its value, at every nesting level; the
\* override is left as it was.
C16_MergesRecursively ==
    [][pc = "merging" /\ pc' = "merged"
       => /\ MergedAsClaimed(base_config'.items, base_config.items,
                             override_config.items)
          /\ override_config' = override_config]_vars

\* The strings the leaves of a dictionary of dictionaries hold under a key.
LeavesUnder(config, key) ==
    {config.items[key].items[sub].v :
        sub \in {k \in DOMAIN config.items[key].items :
                    ~IsDict(config.items[key].items[k])}}

C16_Witness ==
    /\ pc = "merged"
    /\ \E key \in DOMAIN override_config.items :
          /\ IsDict(override_config.items[key])
          /\ IsDict(base_config.items[key])
          /\ LeavesUnder(base_config, key) \ LeavesUnder(override_config, key) # {}
          /\ LeavesUnder(base_config, key) \cap LeavesUnder(override_config, key) # {}

---------------------------------------------------------------------------
(* review_all_pull_requests: AllSpec                                       *)
(*                                                                         *)
(* A pull request of the repository is [number, title, files, raises],     *)
(* raises telling whether review_pull_request raises for it (GitHub        *)
(* answers its requests with an error).                                    *)

MaxPRs == 3

\* The methods of GitHubClient (client.py); the class has no __getattr__.
ClientMethods ==
    {"get_pull_request", "list_pull_requests", "get_pull_request_files",
     "get_file_content", "post_review_comment", "post_review", "download_file"}

PullRequests ==
    {[number |-> n, title |-> "PR " \o ToString(n),
      files |-> IF n % 2 = 1 THEN <<APy>> ELSE <<>>, raises |-> r] :
        n \in 1..MaxPRs, r \in BOOLEAN}

\* The lists of open pull requests GitHub may hold, no number twice.
OpenLists ==
    {prs \in SeqsUpTo(PullRequests, MaxPRs) :
        \A i, j \in 1..Len(prs) : i # j => prs[i].number # prs[j].number}

\* What review_pull_request returns for the files of a pull request.
ReviewOf(files) ==
    LET kept == FilterFilesForReview(DownloadFiles(files))
        style == StyleReview(<<>>, kept)
        security == SecurityReview(<<>>, kept)
        quality == QualityReview(<<>>, kept)
    IN  ReviewResults(style, security, quality,
                      GenerateSummary(style, security, quality))

\* Lines 96-106: the loop over open_prs from pull request i on, results
\* being the list so far. The except clause evaluates pr.number on a
\* dictionary, which raises AttributeError out of the method.
RECURSIVE ReviewEach(_, _, _)
ReviewEach(prs, i, results) ==
    IF i > Len(prs) THEN [results |-> results]
    ELSE IF prs[i].raises THEN [raised |-> "AttributeError"]
    ELSE ReviewEach(prs, i + 1,
                    Append(results, [pr_number |-> prs[i].number,
                                     title |-> prs[i].title,
                                     results |-> ReviewOf(prs[i].files)]))

\* review_all_pull_requests: line 92 calls a method the client may not have.
ReviewAllPullRequests(prs) ==
    IF "get_open_pull_requests" \notin ClientMethods
    THEN [raised |-> "AttributeError"]
    ELSE ReviewEach(prs, 1, <<>>)

AllInit ==
    /\ pc = "all"
    /\ open_prs \in OpenLists
    /\ all_results = None
    /\ CallIdle
    /\ pr_files = <<>>
    /\ filtered_files = <<>>
    /\ style_results = <<>>
    /\ security_results = <<>>
    /\ quality_results = <<>>
    /\ summary = None
    /\ formatted_results = None
    /\ exception = None
    /\ downloaded_files = <<>>
    /\ retained = [style |-> <<>>, security |-> <<>>, quality |-> <<>>]
    /\ remembered = <<>>
    /\ returned = None
    /\ FinderIdle /\ ConfigIdle

\* review_manager.review_all_pull_requests(output_mode=args.output)
ReviewAll ==
    /\ pc = "all"
    /\ LET outcome == ReviewAllPullRequests(open_prs)
       IN  IF "raised" \in DOMAIN outcome
           THEN /\ exception' = outcome.raised
                /\ UNCHANGED all_results
           ELSE /\ all_results' = outcome.results
                /\ UNCHANGED exception
    /\ pc' = "all done"
    /\ UNCHANGED <<pr_files, downloaded_files, filtered_files, style_results,
                   security_results, quality_results, summary,
                   formatted_results, retained, remembered>>
    /\ UNCHANGED <<returned, open_prs, callVars, finderVars, configVars>>

AllNext == ReviewAll

AllSpec == AllInit /\ [][AllNext]_vars

\* The entries of the pull requests from i on whose review succeeds.
RECURSIVE EntriesFrom(_, _)
EntriesFrom(prs, i) ==
    IF i > Len(prs) THEN <<>>
    ELSE (IF prs[i].raises THEN <<>>
          ELSE <<[pr_number |-> prs[i].number, title |-> prs[i].title,
                  results |-> ReviewOf(prs[i].files)]>>)
         \o EntriesFrom(prs, i + 1)

\* C17: the call ends without an exception and returns the list of the
\* entries (pr_number, title, results) of the open pull requests whose
\* review succeeded, in the order of the listing.
C17_AllOpenPullRequestsReviewed ==
    pc = "all done" =>
        /\ exception = None
        /\ all_results = EntriesFrom(open_prs, 1)

---------------------------------------------------------------------------
(* Failures of the external tools                                          *)

\* The flake8 adapter failed for the file: subprocess.run raised, or int()
\* raised on the row or the column of an output line.
Flake8Failed(tools) ==
    \/ ~tools.flake8.ok
    \/ \E i \in 1..Len(tools.flake8.out) :
          /\ tools.flake8.out[i].nparts >= 5
          /\ ~tools.flake8.out[i].row_ok \/ ~tools.flake8.out[i].col_ok

\* The golint adapter failed for the file, likewise.
GolintFailed(tools) ==
    \/ ~tools.golint.ok
    \/ \E i \in 1..Len(tools.golint.out) :
          tools.golint.out[i].nparts >= 3 /\ ~tools.golint.out[i].row_ok

IssuesOfType(issues, filename, type) ==
    SelectSeq(IssuesOfFile(issues, filename), LAMBDA issue : issue.type = type)

\* C28: an adapter that failed for a file, at any point of its run, has
\* contributed no issue for that file, and no exception left the reviewers.
C28_FailedAdapterContributesNothing ==
    Reviewed =>
        /\ exception = None
        /\ \A i \in 1..Len(filtered_files) :
              LET file == filtered_files[i]
                  ext == Lower(GetFileExtension(file.filename))
              IN  /\ (ext = <<".", "p", "y">> /\ Flake8Failed(file.tools)) =>
                         IssuesOfType(style_results, file.filename, "style") = <<>>
                  /\ (ext = <<".", "p", "y">> /\ ~file.tools.pylint.ok) =>
                         IssuesOfType(style_results, file.filename, "lint") = <<>>
                  /\ (ext = <<".", "g", "o">> /\ GolintFailed(file.tools)) =>
                         IssuesOfType(style_results, file.filename, "lint") = <<>>
                  /\ (ext = <<".", "p", "y">> /\ ~file.tools.bandit.ok) =>
                         IssuesOfFile(security_results, file.filename)
                             = CheckSecurityPatterns(file.filename, file.content)

---------------------------------------------------------------------------
(* review_pull_request with its temporary directory and its output:        *)
(* CallSpec                                                                *)
(*                                                                         *)
(* A call may be ended at each of its steps by an exception: of the GitHub *)
(* client before the directory is made, of os.makedirs while downloading,  *)
(* of print, of post_review_comment, or one raised into the review or the  *)
(* formatting (a KeyboardInterrupt).                                       *)

OutputModes == {"console", "github", "both"}

\* The files the pull requests of the calls are made of.
CallFileSet == {APy, BJs, OldPy, CPy}

\* tempfile.mkdtemp: a directory there was not.
NewDir(dirs) == CHOOSE n \in 1..(Cardinality(dirs) + 1) : n \notin dirs

\* The directory is removed only at the end of the try block.
CleanupOnReturn(dirs, dir, raising) == IF raising THEN dirs ELSE dirs \ {dir}

\* finally: shutil.rmtree(temp_dir), on a return and on an exception alike.
Cleanup(dirs, dir, raising) == dirs \ {dir}

\* Lines 326-328: the header and the categories as one comment.
CommentOf(formatted) ==
    formatted.header \o formatted.categories["style"]
        \o formatted.categories["security"] \o formatted.categories["quality"]

\* Lines 50-58: the pull request and its files are fetched, the directory
\* is made and the files are downloaded into it.
CallStart(files, mode, fails) ==
    /\ pc \in {"idle", "returned", "raised"}
    /\ pr_files' = files
    /\ output_mode' = mode
    /\ filtered_files' = <<>>
    /\ style_results' = <<>>
    /\ security_results' = <<>>
    /\ quality_results' = <<>>
    /\ summary' = None
    /\ formatted_results' = None
    /\ returned' = None
    /\ posted' = <<>>
    /\ LET dir == NewDir(temp_dirs)
       IN  IF fails = "get"
           THEN /\ temp_dir' = 0
                /\ UNCHANGED temp_dirs
                /\ downloaded_files' = <<>>
                /\ exception' = "get"
                /\ pc' = "raised"
           ELSE IF fails = "download"
           THEN /\ temp_dir' = dir
                /\ temp_dirs' = Cleanup(temp_dirs \cup {dir}, dir, TRUE)
                /\ downloaded_files' = <<>>
                /\ exception' = "download"
                /\ pc' = "raised"
           ELSE /\ temp_dir' = dir
                /\ temp_dirs' = temp_dirs \cup {dir}
                /\ downloaded_files' = DownloadFiles(files)
                /\ exception' = None
                /\ pc' = "downloaded"
    /\ UNCHANGED <<retained, remembered, open_prs, all_results>>
    /\ UNCHANGED <<finderVars, configVars>>

\* The call is left with an exception, through the finally clause.
RaiseFrom(step) ==
    /\ exception' = step
    /\ pc' = "raised"
    /\ temp_dirs' = Cleanup(temp_dirs, temp_dir, TRUE)
    /\ UNCHANGED <<pr_files, downloaded_files, filtered_files, style_results,
                   security_results, quality_results, summary,
                   formatted_results, retained, remembered, returned>>
    /\ UNCHANGED <<temp_dir, output_mode, posted, open_prs, all_results>>
    /\ UNCHANGED <<finderVars, configVars>>

\* An exception raised into _run_reviews or _format_results.
StepFails ==
    /\ pc \in {"downloaded", "reviewed"}
    /\ RaiseFrom(IF pc = "downloaded" THEN "review" ELSE "format")

\* Lines 66-77: the report is printed and posted as output_mode says and
\* the results are returned.
Output(print_fails, post_fails) ==
    /\ pc = "formatted"
    /\ LET printing == output_mode \in {"console", "both"}
           posting == output_mode \in {"github", "both"}
       IN  IF printing /\ print_fails THEN RaiseFrom("print")
           ELSE IF posting /\ post_fails THEN RaiseFrom("post")
           ELSE /\ posted' = IF posting THEN <<CommentOf(formatted_results)>>
                             ELSE <<>>
                /\ returned' = ReviewResults(style_results, security_results,
                                             quality_results, summary)
                /\ temp_dirs' = Cleanup(temp_dirs, temp_dir, FALSE)
                /\ pc' = "returned"
                /\ UNCHANGED <<pr_files, downloaded_files, filtered_files,
                               style_results, security_results,
                               quality_results, summary, formatted_results,
                               exception, retained, remembered>>
                /\ UNCHANGED <<temp_dir, output_mode, open_prs, all_results>>
                /\ UNCHANGED <<finderVars, configVars>>

CallNext ==
    \/ \E files \in Batches(CallFileSet, MaxFiles) : \E mode \in OutputModes :
          \E fails \in {"get", "download", "no"} : CallStart(files, mode, fails)
    \/ RunReviews
    \/ FormatResults
    \/ StepFails
    \/ \E print_fails, post_fails \in BOOLEAN : Output(print_fails, post_fails)

CallSpec == Init /\ [][CallNext]_vars

\* C29: once the call has returned or raised, no temporary directory is
\* left, whichever step failed; what was posted is the comment made of the
\* formatted results of this call, posted when output_mode asks for it; and
\* a call that was to post either posted and returned, or raised.
C29_TempDirRemovedAndPostPropagates ==
    /\ pc \in {"idle", "returned", "raised"} => temp_dirs = {}
    /\ posted # <<>> =>
           /\ pc = "returned"
           /\ output_mode \in {"github", "both"}
           /\ posted = <<CommentOf(FormatResultsOf(
                            [style |-> style_results,
                             security |-> security_results,
                             quality |-> quality_results,
                             summary |-> summary], PullRequest))>>
    /\ (pc = "returned" /\ output_mode \in {"github", "both"}) => posted # <<>>
    /\ pc = "raised" => returned = None /\ posted = <<>>

\* A call whose posting failed after a review that found issues.
C29_Witness ==
    /\ pc = "raised"
    /\ exception = "post"
    /\ temp_dir # 0
    /\ temp_dirs = {}
    /\ style_results # <<>>

---------------------------------------------------------------------------
(* ConfigLoader.load_config: LoadSpec                                      *)
(*                                                                         *)
(* base_config is the dictionary the last load_config returned and         *)
(* override_config the file configuration it merged (the empty dictionary  *)
(* when it merged none).  config = self.default_config.copy() copies the   *)
(* top level only: a dictionary under a key of the copy is the very object *)
(* default_config holds under that key.                                    *)

EmptyDict == Dict([key \in {} |-> Value("")])

\* What the configuration file holds: a dictionary, or nothing that
\* load_config merges (no file, no JSON, JSON that is not a dictionary).
ConfigFiles ==
    {TestFileConfig,
     Dict([quality |-> Dict([function_length |-> Value("30")]),
           style |-> Value("off")]),
     Dict([style |-> Dict([indent_size |-> Value("2")]),
           plugins |-> Dict([enabled |-> Value("False")])]),
     EmptyDict}

\* The items the caller of load_config writes in the dictionary returned:
\* config[key][sub] = ...
CallerWrites ==
    {<<"quality", "complexity">>, <<"style", "max_line_length">>,
     <<"general", "check_interval">>}

\* The keys under which the returned dictionary holds the object that
\* default_config holds: those of the defaults' dictionaries that the merge
\* recursed into or left alone.
SharedKeys(default_items, file_items) ==
    {key \in DOMAIN default_items :
        /\ IsDict(default_items[key])
        /\ key \in DOMAIN file_items => IsDict(file_items[key])}

\* default_config after _merge_configs(config, file_config): the recursion
\* of line 103 merges into the dictionaries config shares with it.
DefaultsAfterMerge(default_items, file_items) ==
    [key \in DOMAIN default_items |->
        IF /\ key \in DOMAIN file_items
           /\ IsDict(default_items[key])
           /\ IsDict(file_items[key])
        THEN Dict(MergeConfigs(default_items[key].items, file_items[key].items))
        ELSE default_items[key]]

LoadInit ==
    /\ pc = "loader"
    /\ default_config = DefaultConfig
    /\ base_config = None
    /\ override_config = EmptyDict
    /\ duplication = <<>>
    /\ pr_files = <<>>
    /\ filtered_files = <<>>
    /\ style_results = <<>>
    /\ security_results = <<>>
    /\ quality_results = <<>>
    /\ summary = None
    /\ formatted_results = None
    /\ exception = None
    /\ downloaded_files = <<>>
    /\ retained = [style |-> <<>>, security |-> <<>>, quality |-> <<>>]
    /\ remembered = <<>>
    /\ returned = None
    /\ FinderIdle /\ AllIdle

\* config = loader.load_config(), the file holding file_config
LoadConfig(file_config) ==
    /\ pc \in {"loader", "loaded"}
    /\ base_config' = Dict(MergeConfigs(default_config.items, file_config.items))
    /\ default_config' =
           Dict(DefaultsAfterMerge(default_config.items, file_config.items))
    /\ override_config' = file_config
    /\ pc' = "loaded"
    /\ UNCHANGED <<pr_files, downloaded_files, filtered_files, style_results,
                   security_results, quality_results, summary,
                   formatted_results, exception, retained, remembered>>
    /\ UNCHANGED <<returned, duplication, finderVars, allVars>>

\* The caller writes config[key][sub] = 'caller' in the dictionary returned.
WriteReturned(key, sub) ==
    /\ pc = "loaded"
    /\ key \in DOMAIN base_config.items
    /\ IsDict(base_config.items[key])
    /\ base_config' =
           [base_config EXCEPT !.items[key].items[sub] = Value("caller")]
    /\ IF key \in SharedKeys(default_config.items, override_config.items)
       THEN default_config' =
                [default_config EXCEPT !.items[key].items[sub] = Value("caller")]
       ELSE UNCHANGED default_config
    /\ UNCHANGED <<pc, pr_files, downloaded_files, filtered_files,
                   style_results, security_results, quality_results, summary,
                   formatted_results, exception, retained, remembered>>
    /\ UNCHANGED <<returned, override_config, duplication, finderVars, allVars>>

LoadNext ==
    \/ \E file_config \in ConfigFiles : LoadConfig(file_config)
    \/ \E write \in CallerWrites : WriteReturned(write[1], write[2])

LoadSpec == LoadInit /\ [][LoadNext]_vars

\* C30: default_config holds the built-in defaults after any sequence of
\* load_config calls and of writes of the callers in what they returned,
\* and a load that merges no file returns exactly those defaults.
C30_DefaultsUnchanged ==
    /\ [](default_config = DefaultConfig)
    /\ [][\A file_config \in ConfigFiles :
             LoadConfig(file_config) /\ file_config = EmptyDict
                 => base_config' = DefaultConfig]_vars

====
